---- MODULE Spec2Model ----
(***************************************************************************)
(* A model of the Lox interpreter of this repository: the scanner          *)
(* (app/scanner.py), the environment chain (app/environment.py), the       *)
(* resolver (app/resolver.py), the tree-walking interpreter                *)
(* (app/interpreter.py), the recursive-descent parser OldParser            *)
(* (app/parser.py), the AstPrinter (app/ast.py) and the `run` pipeline of  *)
(* the driver (app/main.py).                                               *)
(*                                                                         *)
(* Five specifications share the module:                                   *)
(*   SpecScan  Scanner.scan_tokens, one scan_token call per step           *)
(*   SpecEnv   Environment objects under define / get / assign             *)
(*   Spec      main() under the `run` command                              *)
(*   SpecParse OldParser.parse_stmt, one declaration per step, and         *)
(*             parse_expr                                                  *)
(*   SpecCall  OldParser.finish_call, one pass of its argument loop per    *)
(*             step                                                        *)
(***************************************************************************)
EXTENDS Integers, Sequences, FiniteSets, TLC

VARIABLES
    scanner,      \* SpecScan: the Scanner object (source, start, current, line) and what it reported
    tokens,       \* SpecScan: the local list `tokens` of scan_tokens
    scan_pc,      \* SpecScan: "scanning" inside the while loop, "returned" after
                  \* return, "raised" when an exception left scan_tokens
    envs,         \* SpecEnv: the heap of Environment objects
    env_op,       \* SpecEnv: the last operation applied and what it returned or raised
    pc,           \* Spec: the stage main() is in
    stmt,         \* Spec: the statement list parse_stmt returned
    interpreter,  \* Spec: the Interpreter object
    ip,           \* Spec: the statement the loop of Interpreter.interpret is at
    had_error,    \* Spec: the global had_error of main.py
    stderr,       \* Spec: what compile_error, report and runtime_error printed
    exit_code,    \* Spec: the exit status of the process
    parser,       \* SpecParse: the OldParser object
    parse_result, \* SpecParse: the local list `statements` of parse_stmt, or what parse_expr returned
    parse_pc,     \* SpecParse: the method running ("parse_stmt", "parse_expr"), "stmt_returned"
                  \* or "expr_returned" after its return, "looping" when its loop cannot end
    parse_log     \* SpecParse: one record per declaration that parse_stmt called

main_vars == <<pc, stmt, interpreter, ip, had_error, stderr, exit_code>>

parse_vars == <<parser, parse_result, parse_pc, parse_log>>

vars == <<scanner, tokens, scan_pc, envs, env_op, main_vars, parse_vars>>

\* The value None of the source language of the implementation.
None == [type |-> "None"]

(***************************************************************************)
(* app/scanner.py                                                          *)
(***************************************************************************)

\* char_tokens: the single-character tokens.
char_tokens ==
    [c \in {"(", ")", "{", "}", ",", ".", "-", "+", ";", "*"} |->
        CASE c = "(" -> "LEFT_PAREN"
          [] c = ")" -> "RIGHT_PAREN"
          [] c = "{" -> "LEFT_BRACE"
          [] c = "}" -> "RIGHT_BRACE"
          [] c = "," -> "COMMA"
          [] c = "." -> "DOT"
          [] c = "-" -> "MINUS"
          [] c = "+" -> "PLUS"
          [] c = ";" -> "SEMICOLON"
          [] c = "*" -> "STAR"]

\* char_equal_tokens: the tokens that an '=' may follow.
char_equal_tokens ==
    [c \in {"!", "=", "<", ">"} |->
        CASE c = "!" -> "BANG"
          [] c = "=" -> "EQUAL"
          [] c = "<" -> "LESS"
          [] c = ">" -> "GREATER"]

\* TokenType(t + 1) for the members of char_equal_tokens: the IntEnum lists
\* each X_EQUAL right after X.
TokenTypeSucc ==
    [t \in {"BANG", "EQUAL", "LESS", "GREATER"} |->
        CASE t = "BANG" -> "BANG_EQUAL"
          [] t = "EQUAL" -> "EQUAL_EQUAL"
          [] t = "LESS" -> "LESS_EQUAL"
          [] t = "GREATER" -> "GREATER_EQUAL"]

\* keywords: lexeme (a sequence of characters) -> token type, for AND..WHILE.
keywords ==
    (<<"a", "n", "d">> :> "AND") @@
    (<<"c", "l", "a", "s", "s">> :> "CLASS") @@
    (<<"e", "l", "s", "e">> :> "ELSE") @@
    (<<"f", "a", "l", "s", "e">> :> "FALSE") @@
    (<<"f", "u", "n">> :> "FUN") @@
    (<<"f", "o", "r">> :> "FOR") @@
    (<<"i", "f">> :> "IF") @@
    (<<"n", "i", "l">> :> "NIL") @@
    (<<"o", "r">> :> "OR") @@
    (<<"p", "r", "i", "n", "t">> :> "PRINT") @@
    (<<"r", "e", "t", "u", "r", "n">> :> "RETURN") @@
    (<<"s", "u", "p", "e", "r">> :> "SUPER") @@
    (<<"t", "h", "i", "s">> :> "THIS") @@
    (<<"t", "r", "u", "e">> :> "TRUE") @@
    (<<"v", "a", "r">> :> "VAR") @@
    (<<"w", "h", "i", "l", "e">> :> "WHILE")

\* str.isdigit, str.isspace, str.isidentifier and str.isalnum on one character
\* (the ASCII part of each class).
Digits == {"0", "1", "2", "3", "4", "5", "6", "7", "8", "9"}
\* Characters str.isdigit and str.isalnum accept that are no decimal digits:
\* float() raises ValueError on a lexeme that holds one.
OtherDigits == {"²"}
isdigit(c) == c \in Digits \cup OtherDigits
isspace(c) == c \in {" ", "\t", "\n", "\r"}
Letters ==
    {"a", "b", "c", "d", "e", "f", "g", "h", "i", "j", "k", "l", "m",
     "n", "o", "p", "q", "r", "s", "t", "u", "v", "w", "x", "y", "z",
     "A", "B", "C", "D", "E", "F", "G", "H", "I", "J", "K", "L", "M",
     "N", "O", "P", "Q", "R", "S", "T", "U", "V", "W", "X", "Y", "Z"}
isidentifier(c) == c \in Letters \cup {"_"}
\* under_alpha_num of Scanner.identifier, as the set of characters it accepts.
under_alpha_num == Letters \cup Digits \cup OtherDigits \cup {"_"}

\* Scanner.__init__; `errors` is what the report callback has received and
\* `compat` the value CRAFTING_INTERPRETERS() returns.
Scanner(source, compat) ==
    [source |-> source, start |-> 0, current |-> 0, line |-> 1,
     errors |-> <<>>, compat |-> compat]

\* Scanner.peek and peek_next: "" at and beyond the end (indices are 0-based
\* in the code, sequences 1-based here).
peek(s) == IF s.current < Len(s.source) THEN s.source[s.current + 1] ELSE ""
peek_next(s) == IF s.current + 1 < Len(s.source) THEN s.source[s.current + 2] ELSE ""

\* Scanner.pop: moves current even at the end of the source.
pop(s) ==
    [s EXCEPT !.line = IF peek(s) = "\n" THEN @ + 1 ELSE @,
              !.current = @ + 1]

\* Scanner.take(m) for a predicate or a one-character string m, as the set M of
\* characters m accepts: the scanner after the call.
take(s, M) == IF peek(s) # "" /\ peek(s) \in M THEN pop(s) ELSE s
\* ... and whether the call returned a truthy value.
takes(s, M) == peek(s) # "" /\ peek(s) \in M

\* Scanner.take_many
RECURSIVE take_many(_, _)
take_many(s, M) == IF takes(s, M) THEN take_many(take(s, M), M) ELSE s

\* Scanner.skip_until: [s |-> the scanner after the call, found |-> its result]
RECURSIVE skip_until(_, _)
skip_until(s, M) ==
    IF takes(s, M) THEN [s |-> take(s, M), found |-> TRUE]
    ELSE IF peek(s) = "" THEN [s |-> pop(s), found |-> FALSE]
    ELSE skip_until(pop(s), M)

\* Scanner.lexeme: source[start:current], a slice that clips at the end.
lexeme(s) ==
    LET last == IF s.current < Len(s.source) THEN s.current ELSE Len(s.source)
    IN  IF s.start >= last THEN <<>> ELSE SubSeq(s.source, s.start + 1, last)

\* float() of a NUMBER lexeme: the integer value of the digits before the dot
\* and the digits after it without trailing zeros.
RECURSIVE DigitsValue(_)
DigitsValue(ds) ==
    IF ds = <<>> THEN 0
    ELSE 10 * DigitsValue(SubSeq(ds, 1, Len(ds) - 1))
         + CHOOSE d \in 0..9 : <<"0", "1", "2", "3", "4", "5", "6", "7", "8", "9">>[d + 1] = ds[Len(ds)]
RECURSIVE StripZeros(_)
StripZeros(ds) ==
    IF ds # <<>> /\ ds[Len(ds)] = "0" THEN StripZeros(SubSeq(ds, 1, Len(ds) - 1)) ELSE ds
float(lex) ==
    LET dots == {i \in 1..Len(lex) : lex[i] = "."}
        dot == IF dots = {} THEN Len(lex) + 1 ELSE CHOOSE i \in dots : TRUE
    IN  [int |-> DigitsValue(SubSeq(lex, 1, dot - 1)),
         frac |-> StripZeros(SubSeq(lex, dot + 1, Len(lex)))]

\* Scanner.make_token
make_token(s, type, literal) ==
    [type |-> type, lexeme |-> lexeme(s), line |-> s.line, literal |-> literal]

\* Scanner.error
error(s, message) ==
    [s EXCEPT !.errors = Append(@, [line |-> s.line, where |-> "", message |-> message])]

\* Scanner.string
string(s) ==
    LET r == skip_until(s, {"\""})
        lex == lexeme(r.s)
    IN  IF ~r.found THEN [s |-> error(r.s, "Unterminated string."), t |-> None]
        ELSE [s |-> r.s, t |-> make_token(r.s, "STRING", SubSeq(lex, 2, Len(lex) - 1))]

\* Scanner.number
number(s) ==
    LET s1 == take_many(s, Digits \cup OtherDigits)
        s2 == IF peek(s1) = "." /\ peek_next(s1) # "" /\ isdigit(peek_next(s1))
              THEN take_many(pop(s1), Digits \cup OtherDigits)
              ELSE s1
        lex == lexeme(s2)
    IN  IF \E i \in DOMAIN lex : lex[i] \in OtherDigits
        THEN [s |-> s2, t |-> None, raised |-> "ValueError"]
        ELSE [s |-> s2, t |-> make_token(s2, "NUMBER", float(lex))]

\* The call left by an exception instead of a result.
raises(r) == "raised" \in DOMAIN r

\* Scanner.identifier
identifier(s) ==
    LET s1 == take_many(s, under_alpha_num)
        lex == lexeme(s1)
    IN  IF lex \in DOMAIN keywords
        THEN [s |-> s1, t |-> make_token(s1, keywords[lex], None)]
        ELSE [s |-> s1, t |-> make_token(s1, "IDENTIFIER", None)]

\* Scanner.scan_token: [s |-> the scanner after the call, t |-> the token or None]
\* and, when float() raised in number, raised |-> "ValueError".
RECURSIVE scan_token(_)
scan_token(s0) ==
    LET s == [s0 EXCEPT !.start = s0.current]
        c == peek(s)
    IN  IF s.current >= Len(s.source) THEN [s |-> s, t |-> make_token(s, "EOF", None)]
        ELSE IF c \in DOMAIN char_tokens
        THEN [s |-> pop(s), t |-> make_token(pop(s), char_tokens[c], None)]
        ELSE IF c \in DOMAIN char_equal_tokens
        THEN LET s1 == pop(s)
                 s2 == take(s1, {"="})
                 tt == IF takes(s1, {"="}) THEN TokenTypeSucc[char_equal_tokens[c]]
                       ELSE char_equal_tokens[c]
             IN  [s |-> s2, t |-> make_token(s2, tt, None)]
        ELSE IF isspace(c) THEN scan_token(pop(s))
        ELSE IF isdigit(c) THEN number(pop(s))
        ELSE IF c = "\"" THEN string(pop(s))
        ELSE IF c = "/"
        THEN IF takes(pop(s), {"/"})
             THEN scan_token(skip_until(take(pop(s), {"/"}), {"\n"}).s)
             ELSE [s |-> pop(s), t |-> make_token(pop(s), "SLASH", None)]
        ELSE IF isidentifier(c) THEN identifier(pop(s))
        ELSE IF s.compat
        THEN [s |-> pop(error(s, "Unexpected character.")), t |-> None]
        ELSE [s |-> error(pop(s), "Unexpected character: " \o c), t |-> None]

\* Scanner.scan_tokens, the whole loop: [s |-> the scanner, tokens |-> the list,
\* raised |-> whether an exception left it instead of the return]
RECURSIVE scan_tokens(_, _)
scan_tokens(s, toks) ==
    LET r == scan_token(s)
    IN  IF raises(r) THEN [s |-> r.s, tokens |-> toks, raised |-> TRUE]
        ELSE IF r.t = None THEN scan_tokens(r.s, toks)
        ELSE IF r.t.type = "EOF"
        THEN [s |-> r.s, tokens |-> Append(toks, r.t), raised |-> FALSE]
        ELSE scan_tokens(r.s, Append(toks, r.t))

(***************************************************************************)
(* app/environment.py.  A heap H of Environment objects is a sequence of   *)
(* records [values, parent]; an Environment is its index in H and the      *)
(* parent None is 0.                                                       *)
(***************************************************************************)

\* Environment.__init__
Environment(parent) == [values |-> <<>>, parent |-> parent]

\* The text of the LoxRuntimeError of __getitem__ and assign.
UndefinedVariable(name) == "Undefined variable '" \o name \o "'."

\* Environment.__getitem__: the value and the scope `at` that held it, or the
\* error raised.
RECURSIVE getitem(_, _, _)
getitem(H, e, name) ==
    IF name \in DOMAIN H[e].values
    THEN [raised |-> FALSE, value |-> H[e].values[name], at |-> e]
    ELSE IF H[e].parent # 0 THEN getitem(H, H[e].parent, name)
    ELSE [raised |-> TRUE, message |-> UndefinedVariable(name), at |-> 0]

\* setitem that behaves like assign when an outer scope has the name: it
\* overwrites the outer binding instead of shadowing it.
RECURSIVE setitem_outer(_, _, _, _)
setitem_outer(H, e, key, value) ==
    IF H[e].parent # 0 /\ ~getitem(H, H[e].parent, key).raised
    THEN setitem_outer(H, H[e].parent, key, value)
    ELSE [H EXCEPT ![e].values = (key :> value) @@ @]

\* Environment.__setitem__: the heap after the call.
setitem(H, e, key, value) == [H EXCEPT ![e].values = (key :> value) @@ @]

\* assign that defines the name in the scope it was called on when no scope
\* has it, instead of raising.
RECURSIVE assign_or_define(_, _, _, _)
assign_or_define(H, e, name, value) ==
    IF name \in DOMAIN H[e].values
    THEN [H |-> setitem(H, e, name, value), raised |-> FALSE]
    ELSE IF H[e].parent = 0
    THEN [H |-> setitem(H, e, name, value), raised |-> FALSE]
    ELSE assign_or_define(H, H[e].parent, name, value)

\* Environment.assign: the heap after the call, or the error raised.
RECURSIVE assign(_, _, _, _)
assign(H, e, name, value) ==
    IF name \in DOMAIN H[e].values
    THEN [H |-> setitem(H, e, name, value), raised |-> FALSE]
    ELSE IF H[e].parent = 0
    THEN [H |-> H, raised |-> TRUE, message |-> UndefinedVariable(name)]
    ELSE assign(H, H[e].parent, name, value)

\* Environment.ancestor: the scope `distance` parents up, 0 when the chain is
\* shorter (RuntimeError "Impossible state").
RECURSIVE ancestor(_, _, _)
ancestor(H, e, distance) ==
    IF distance # 0
    THEN IF H[e].parent # 0 THEN ancestor(H, H[e].parent, distance - 1) ELSE 0
    ELSE e

(***************************************************************************)
(* app/expression.py and app/statement.py: the AST.  A node is a record    *)
(* with its class name in `type`; a name token is its lexeme; Variable,    *)
(* Assign and This nodes carry `id`, the identity (id(node)) that the      *)
(* binding-distance table is keyed by.  An absent child is None.           *)
(***************************************************************************)
Assign(id, name, value) == [type |-> "Assign", id |-> id, name |-> name, value |-> value]
Binary(left, operator, right) ==
    [type |-> "Binary", left |-> left, operator |-> operator, right |-> right]
Call(callee, args) == [type |-> "Call", callee |-> callee, args |-> args]
Get(object, name) == [type |-> "Get", object |-> object, name |-> name]
Grouping(value) == [type |-> "Grouping", value |-> value]
Literal(value) == [type |-> "Literal", value |-> value]
Logical(left, operator, right) ==
    [type |-> "Logical", left |-> left, operator |-> operator, right |-> right]
Set(object, name, value) == [type |-> "Set", object |-> object, name |-> name, value |-> value]
This(id) == [type |-> "This", id |-> id, name |-> "this"]
Unary(operator, right) == [type |-> "Unary", operator |-> operator, right |-> right]
Variable(id, name) == [type |-> "Variable", id |-> id, name |-> name]

Block(statements) == [type |-> "Block", statements |-> statements]
Class(name, methods) == [type |-> "Class", name |-> name, methods |-> methods]
Expression(expr) == [type |-> "Expression", expr |-> expr]
Function(name, params, body) ==
    [type |-> "Function", name |-> name, params |-> params, body |-> body]
If(condition, then_branch, else_branch) ==
    [type |-> "If", condition |-> condition, then_branch |-> then_branch,
     else_branch |-> else_branch]
PrintStmt(expr) == [type |-> "Print", expr |-> expr]
Return(value) == [type |-> "Return", value |-> value]
Var(name, initializer) == [type |-> "Var", name |-> name, initializer |-> initializer]
While(condition, body) == [type |-> "While", condition |-> condition, body |-> body]

\* The runtime values: None (nil), bool, float (integer-valued here), str;
\* functions, classes and instances are defined with the interpreter.
Nil == [t |-> "nil"]
Bool(b) == [t |-> "bool", b |-> b]
Num(n) == [t |-> "float", n |-> n]
Str(x) == [t |-> "str", s |-> x]

(***************************************************************************)
(* app/resolver.py.  The chain of Resolver objects is the sequence         *)
(* r.scopes of their `scope` dicts: the first is the global Resolver       *)
(* (parent None), the last is `self`.  r.locals is Interpreter.locals and  *)
(* r.errors what on_error has received.                                    *)
(***************************************************************************)
NewResolver == [scopes |-> << <<>> >>, locals |-> <<>>, errors |-> <<>>]

on_error(r, lex, message) ==
    [r EXCEPT !.errors = Append(@, [at |-> lex, message |-> message])]

\* Resolver.clone and the end of the clone's life
push_scope(r) == [r EXCEPT !.scopes = Append(@, <<>>)]
pop_scope(r) == [r EXCEPT !.scopes = SubSeq(@, 1, Len(@) - 1)]

\* self.scope[name] = state
set_scope(r, name, state) ==
    [r EXCEPT !.scopes[Len(r.scopes)] = (name :> state) @@ @]

\* declare without the test for a parent: a global redeclaration is an error too.
declare_global_too(r, name, state) ==
    set_scope(IF name \in DOMAIN r.scopes[Len(r.scopes)]
              THEN on_error(r, name, "Already a variable with this name in this scope.")
              ELSE r,
              name, state)

\* Resolver.declare
declare(r, name, state) ==
    set_scope(IF Len(r.scopes) > 1 /\ name \in DOMAIN r.scopes[Len(r.scopes)]
              THEN on_error(r, name, "Already a variable with this name in this scope.")
              ELSE r,
              name, state)

\* Resolver.resolve_local, started in the Resolver at `level` with hop count n
\* (Interpreter.resolve stores the distance).
RECURSIVE resolve_local_from(_, _, _, _, _)
resolve_local_from(r, level, id, name, n) ==
    IF level = 1 THEN r
    ELSE IF name \in DOMAIN r.scopes[level]
    THEN [r EXCEPT !.locals = (id :> n) @@ @]
    ELSE resolve_local_from(r, level - 1, id, name, n + 1)

\* resolve_local that starts counting at the parent: every distance is one short.
resolve_local_short(r, id, name) ==
    IF Len(r.scopes) = 1 THEN r
    ELSE IF name \in DOMAIN r.scopes[Len(r.scopes)]
    THEN [r EXCEPT !.locals = (id :> 0) @@ @]
    ELSE resolve_local_from(r, Len(r.scopes) - 1, id, name, 0)

resolve_local(r, id, name) == resolve_local_from(r, Len(r.scopes), id, name, 0)

\* BaseVisitor (app/statement.py): the children a visit_* method of the base
\* class visits, in its order.
base_children(x) ==
    CASE x.type = "Block" -> x.statements
      [] x.type = "Class" -> x.methods
      [] x.type = "Expression" -> <<x.expr>>
      [] x.type = "Function" -> x.body
      [] x.type = "If" ->
            <<x.condition, x.then_branch>> \o
            (IF x.else_branch # None THEN <<x.else_branch>> ELSE <<>>)
      [] x.type = "Return" -> IF x.value # None THEN <<x.value>> ELSE <<>>
      [] x.type = "Print" -> <<x.expr>>
      [] x.type = "Var" -> IF x.initializer # None THEN <<x.initializer>> ELSE <<>>
      [] x.type = "While" -> <<x.condition, x.body>>
      [] x.type = "Assign" -> <<x.value>>
      [] x.type = "Binary" -> <<x.left, x.right>>
      [] x.type = "Call" -> <<x.callee>> \o x.args
      [] x.type = "Get" -> <<x.object>>
      [] x.type = "Grouping" -> <<x.value>>
      [] x.type = "Literal" -> <<>>
      [] x.type = "Logical" -> <<x.left, x.right>>
      [] x.type = "Set" -> <<x.object, x.value>>
      [] x.type = "This" -> <<>>
      [] x.type = "Unary" -> <<x.right>>
      [] x.type = "Variable" -> <<>>

\* The element of a singleton set.  Value({F(x) : x \in {e}}) is F of the
\* value of e: the way a result is named below, so that e is computed once.
Value(S) == CHOOSE v \in S : TRUE

\* visit_variable without the test for a parent: the global scope is checked
\* like a local one.
resolve_variable_global_too(r, x) ==
    LET scope == r.scopes[Len(r.scopes)]
    IN  Value({resolve_local(r1, x.id, x.name)
               : r1 \in {IF x.name \in DOMAIN scope /\ scope[x.name] = "INITIALIZING"
                         THEN on_error(r, x.name,
                                 "Can't read local variable in its own initializer.")
                         ELSE r}})

\* Resolver.visit_variable
resolve_variable(r, x) ==
    LET scope == r.scopes[Len(r.scopes)]
    IN  Value({resolve_local(r1, x.id, x.name)
               : r1 \in {IF /\ Len(r.scopes) > 1
                            /\ x.name \in DOMAIN scope
                            /\ scope[x.name] = "INITIALIZING"
                         THEN on_error(r, x.name,
                                 "Can't read local variable in its own initializer.")
                         ELSE r}})

RECURSIVE declare_all(_, _, _)
declare_all(r, names, state) ==
    IF names = <<>> THEN r
    ELSE Value({declare_all(r1, Tail(names), state) : r1 \in {declare(r, Head(names), state)}})

\* Resolver: x.accept(self) for a statement or an expression, and accept_any
\* for a list.
RECURSIVE resolve(_, _)
RECURSIVE resolve_all(_, _)
resolve_all(r, nodes) ==
    IF nodes = <<>> THEN r
    ELSE Value({resolve_all(r1, Tail(nodes)) : r1 \in {resolve(r, Head(nodes))}})

resolve(r, x) ==
    CASE x.type = "Block" ->                                   \* visit_block
            Value({pop_scope(resolve_all(r1, x.statements)) : r1 \in {push_scope(r)}})
      [] x.type = "Var" ->                                     \* visit_var
            Value({set_scope(r2, x.name, "SET")
                   : r2 \in {Value({IF x.initializer # None THEN resolve(r1, x.initializer)
                                    ELSE r1
                                    : r1 \in {declare(r, x.name, "INITIALIZING")}})}})
      [] x.type = "Variable" -> resolve_variable(r, x)            \* visit_variable
      [] x.type = "This" -> resolve_local(r, x.id, "this")      \* visit_this
      [] x.type = "Assign" ->                                  \* visit_assign
            Value({resolve_local(r1, x.id, x.name) : r1 \in {resolve(r, x.value)}})
      [] x.type = "Function" ->                                \* visit_function
            Value({pop_scope(resolve_all(r2, x.body))
                   : r2 \in {Value({declare_all(push_scope(r1), x.params, "SET")
                                    : r1 \in {declare(r, x.name, "SET")}})}})
      [] x.type = "Class" ->                                   \* visit_class
            Value({pop_scope(resolve_all(r2, x.methods))
                   : r2 \in {Value({set_scope(push_scope(r1), "this", "SET")
                                    : r1 \in {declare(r, x.name, "SET")}})}})
      [] OTHER -> resolve_all(r, base_children(x))             \* BaseVisitor

\* ReturnInFunc, ThisOutsideClass, ReturnInInit and ReturnInInit.ReturnValue:
\* what the visitor v reports on x, in order.
RECURSIVE check(_, _)
RECURSIVE check_all(_, _)
check_all(v, nodes) ==
    IF nodes = <<>> THEN <<>> ELSE check(v, Head(nodes)) \o check_all(v, Tail(nodes))

RECURSIVE init_bodies(_)
init_bodies(methods) ==
    IF methods = <<>> THEN <<>>
    ELSE (IF Head(methods).name = "init" THEN Head(methods).body ELSE <<>>)
         \o init_bodies(Tail(methods))

check(v, x) ==
    CASE v = "ReturnInFunc" /\ x.type = "Return" ->
            <<[at |-> "return", message |-> "Can't return from top-level code."]>>
      [] v = "ReturnInFunc" /\ x.type = "Function" -> <<>>
      [] v = "ThisOutsideClass" /\ x.type = "This" ->
            <<[at |-> "this", message |-> "Can't use 'this' outside of a class."]>>
      [] v = "ThisOutsideClass" /\ x.type = "Class" -> <<>>
      [] v = "ReturnValue" /\ x.type = "Return" ->
            (IF x.value # None
             THEN <<[at |-> "return", message |-> "Can't return a value from an initializer."]>>
             ELSE <<>>) \o check_all(v, base_children(x))
      [] v = "ReturnValue" /\ x.type = "Function" -> <<>>
      [] v = "ReturnInInit" /\ x.type = "Class" ->
            check_all("ReturnValue", init_bodies(x.methods)) \o check_all(v, x.methods)
      [] OTHER -> check_all(v, base_children(x))

\* static_analysis in which ReturnInFunc stops at its first report.
static_analysis_first_return(stmts) ==
    LET r == resolve_all(NewResolver, stmts)
        returns == check_all("ReturnInFunc", stmts)
    IN  [locals |-> r.locals,
         errors |-> r.errors \o (IF returns = <<>> THEN <<>> ELSE <<Head(returns)>>)
                            \o check_all("ThisOutsideClass", stmts)
                            \o check_all("ReturnInInit", stmts)]

\* static_analysis: the binding-distance table stored in the interpreter and
\* the compile errors reported.
static_analysis(stmts) ==
    LET r == resolve_all(NewResolver, stmts)
    IN  [locals |-> r.locals,
         errors |-> r.errors \o check_all("ReturnInFunc", stmts)
                            \o check_all("ThisOutsideClass", stmts)
                            \o check_all("ReturnInInit", stmts)]

(***************************************************************************)
(* Interpreter (app/interpreter.py).  An Interpreter is a record I:        *)
(*   envs         the Environment objects, envs[1] being global_env        *)
(*   environment  the current environment                                  *)
(*   locals       the binding-distance table, keyed by node identity       *)
(*   out          the lines printed to `file`                              *)
(*   instances    the LoxInstance objects                                  *)
(*   objects      how many function and class objects were created         *)
(* and, for the properties below, a history of what ran:                   *)
(*   frame        the function call being executed (fun 0: top level)      *)
(*   blocks       every execute_block that was left                        *)
(*   calls        every call of a Lox function that was left               *)
(*   returns      every ReturnUnwind raised                                *)
(*   binds        every binding a Variable or Assign node touched, with    *)
(*                the environment resolved_env gave for the node           *)
(* A visit returns [I, st, v]: st is "ok" with the value v, or the name of *)
(* the exception that left it (v: the message, or the returned value).     *)
(***************************************************************************)
Ok(I, v) == [I |-> I, st |-> "ok", v |-> v]
Raise(I, message) == [I |-> I, st |-> "LoxRuntimeError", v |-> message]
Crash(I, exception) == [I |-> I, st |-> exception, v |-> Nil]

\* clock: the wall time is outside the model; one fixed reading.
clock == Num(1700000000)

default_global == ("clock" :> [t |-> "native", name |-> "clock"])

\* Interpreter.__init__
Interpreter ==
    [envs |-> <<[Environment(0) EXCEPT !.values = default_global]>>,
     environment |-> 1, locals |-> <<>>, out |-> <<>>, instances |-> <<>>,
     objects |-> 0, frame |-> [fun |-> 0, env |-> 0],
     blocks |-> <<>>, calls |-> <<>>, returns |-> <<>>, binds |-> {}]

\* LoxClass.__str__ and LoxInstance.__str__ are reached through str(o).
stringify(I, o) ==
    CASE o.t = "nil" -> "nil"
      [] o.t = "bool" -> IF o.b THEN "true" ELSE "false"
      [] o.t = "float" -> ToString(o.n)
      [] o.t = "native" -> "<native fn>"
      [] o.t = "fun" -> "<fn " \o o.decl.name \o ">"
      [] o.t = "str" -> o.s
      [] o.t = "class" -> o.attrs["name"].s
      [] o.t = "instance" -> I.instances[o.id].c.attrs["name"].s \o " instance"

\* x == y of Python, as "true", "false" or "RecursionError".  Values are
\* records tagged with their type, functions and classes carry their identity:
\* equal records are ==.  Two LoxInstance objects are compared by the __eq__
\* that @dataclass generates (app/classes.py): their classes are == and their
\* dicts `fields` are, which have the same keys and values that are the same
\* object or ==.  pending: the pairs whose comparison is under way; coming to
\* one of them again, the recursion does not end.  (A dict is compared in the
\* order of its keys up to the first difference; the order is not kept here.)
RECURSIVE dataclass_eq(_, _, _, _)
dataclass_eq(I, x, y, pending) ==
    IF x = y THEN "true"
    ELSE IF x.t # "instance" \/ y.t # "instance" THEN "false"
    ELSE IF <<x.id, y.id>> \in pending THEN "RecursionError"
    ELSE LET a == I.instances[x.id]
             b == I.instances[y.id]
             fields == {dataclass_eq(I, a.fields[k], b.fields[k],
                                     pending \cup {<<x.id, y.id>>})
                        : k \in DOMAIN a.fields \cap DOMAIN b.fields}
         IN  IF a.c # b.c \/ DOMAIN a.fields # DOMAIN b.fields THEN "false"
             ELSE IF fields \subseteq {"true"} THEN "true"
             ELSE IF "RecursionError" \in fields THEN "RecursionError"
             ELSE "false"

\* is_equal: type(x) is type(y) and x == y
is_equal(I, x, y) == IF x.t # y.t THEN "false" ELSE dataclass_eq(I, x, y, {})

truthy(o) == o # Bool(FALSE) /\ o # Nil

\* callable(o): functions, natives, and LoxClass through __call__.
callable(o) == o.t \in {"fun", "native", "class"}

\* func.arity: LoxFunction.arity, NativeFunction.arity, LoxClass.arity.
arity(o) ==
    CASE o.t = "fun" -> Len(o.decl.params)
      [] o.t = "native" -> 0
      [] o.t = "class" ->
            IF "init" \in DOMAIN o.attrs THEN Len(o.attrs["init"].decl.params) ELSE 0

\* Interpreter.resolved_env (0: ancestor raised RuntimeError)
resolved_env(I, e) ==
    IF e.id \in DOMAIN I.locals
    THEN ancestor(I.envs, I.environment, I.locals[e.id])
    ELSE 1

\* The binding a node touched, for the history.
bound(I, e, resolved, at) ==
    [I EXCEPT !.binds = @ \cup {[node |-> e.id, fun |-> I.frame.fun,
                                 env |-> I.frame.env, resolved |-> resolved,
                                 at |-> at]}]

\* make_function closing over nothing but the globals.
make_function_global(I, f) ==
    Ok([I EXCEPT !.objects = @ + 1],
       [t |-> "fun", id |-> I.objects + 1, decl |-> f, closure |-> 1])

\* Interpreter.make_function: the function object, closing over the current
\* environment (func.shim gives it the name and the parameter names).
make_function(I, f) ==
    Ok([I EXCEPT !.objects = @ + 1],
       [t |-> "fun", id |-> I.objects + 1, decl |-> f, closure |-> I.environment])

\* for a, p in zip(args, f.params): env[p.lexeme] = a
RECURSIVE zip_params(_, _, _, _)
zip_params(H, env, args, params) ==
    IF args = <<>> \/ params = <<>> THEN H
    ELSE zip_params(setitem(H, env, Head(params), Head(args)), env,
                    Tail(args), Tail(params))

\* execute_block without try/finally: the environment is put back only when
\* the statements end normally.
leave_block_normal_only(r, orig, env) ==
    LET after == IF r.st = "ok" THEN orig ELSE r.I.environment
    IN  [r EXCEPT !.I.environment = after,
                  !.I.blocks = Append(@, [orig |-> orig, env |-> env, exit |-> r.st,
                                          after |-> after])]

\* The end of execute_block: `finally` puts the environment back whatever
\* left the statements.
leave_block(r, orig, env) ==
    [r EXCEPT !.I.environment = orig,
              !.I.blocks = Append(@, [orig |-> orig, env |-> env, exit |-> r.st,
                                      after |-> orig])]

\* visit_binary, once both operands are values.
binary(I, operator, left, right) ==
    CASE operator \in {"BANG_EQUAL", "EQUAL_EQUAL"} ->
            Value({IF equal = "RecursionError" THEN Crash(I, "RecursionError")
                   ELSE Ok(I, Bool(equal = (IF operator = "EQUAL_EQUAL" THEN "true"
                                            ELSE "false")))
                   : equal \in {is_equal(I, left, right)}})
      [] operator = "PLUS" ->
            IF left.t = "str" /\ right.t = "str" THEN Ok(I, Str(left.s \o right.s))
            ELSE IF left.t = "float" /\ right.t = "float" THEN Ok(I, Num(left.n + right.n))
            ELSE Raise(I, "Operands must be two numbers or two strings.")
      [] OTHER ->
            IF left.t # "float" \/ right.t # "float"
            THEN Raise(I, "Operands must be numbers.")
            ELSE CASE operator = "GREATER" -> Ok(I, Bool(left.n > right.n))
                   [] operator = "GREATER_EQUAL" -> Ok(I, Bool(left.n >= right.n))
                   [] operator = "LESS" -> Ok(I, Bool(left.n < right.n))
                   [] operator = "LESS_EQUAL" -> Ok(I, Bool(left.n <= right.n))
                   [] operator = "MINUS" -> Ok(I, Num(left.n - right.n))
                   [] operator = "STAR" -> Ok(I, Num(left.n * right.n))
                   [] OTHER -> Crash(I, "RuntimeError")

\* visit_unary, once the operand is a value.
unary(I, operator, right) ==
    CASE operator = "MINUS" ->
            IF right.t = "float" THEN Ok(I, Num(0 - right.n))
            ELSE Raise(I, "Operand must be a number.")
      [] operator = "BANG" -> Ok(I, Bool(~truthy(right)))
      [] OTHER -> Crash(I, "RuntimeError")

\* LoxInstance.__getitem__
instance_get(I, obj, name) ==
    LET inst == I.instances[obj.id]
    IN  IF name \in DOMAIN inst.fields THEN Ok(I, inst.fields[name])
        ELSE IF name \in DOMAIN inst.c.attrs THEN Ok(I, inst.c.attrs[name])
        ELSE Raise(I, "Undefined property '" \o name \o "'.")

\* LoxClass.__call__
class_call(I, c) ==
    LET I1 == [I EXCEPT !.instances = Append(@, [c |-> c, fields |-> <<>>])]
    IN  IF "init" \in DOMAIN c.attrs THEN Crash(I1, "NotImplementedError")
        ELSE Ok(I1, [t |-> "instance", id |-> Len(I1.instances)])

RECURSIVE evaluate(_, _)
RECURSIVE evaluate_args(_, _, _)
RECURSIVE execute(_, _)
RECURSIVE execute_all(_, _)
RECURSIVE visit_while(_, _)
RECURSIVE class_methods(_, _, _)

\* args = [self.evaluate(a) for a in call.args]
evaluate_args(I, args, done) ==
    IF args = <<>> THEN Ok(I, done)
    ELSE Value({IF a.st # "ok" THEN a
                ELSE evaluate_args(a.I, Tail(args), Append(done, a.v))
                : a \in {evaluate(I, Head(args))}})

\* for st in statements: self.execute(st)
execute_all(I, statements) ==
    IF statements = <<>> THEN Ok(I, Nil)
    ELSE Value({IF r.st # "ok" THEN r ELSE execute_all(r.I, Tail(statements))
                : r \in {execute(I, Head(statements))}})

\* Interpreter.execute_block
execute_block(I, statements, env) ==
    Value({leave_block(r, I.environment, env)
           : r \in {Value({execute_all(I1, statements)
                           : I1 \in {[I EXCEPT !.environment = env]}})}})

\* fun without the except clause: ReturnUnwind leaves the call as it came.
fun_no_except(I, f, args) ==
    LET env == Len(I.envs) + 1
        H == zip_params(Append(I.envs, Environment(f.closure)), env, args, f.decl.params)
        Left(r) ==
            LET I1 == [r.I EXCEPT !.frame = I.frame,
                                  !.calls = Append(@, [fun |-> f.id, env |-> env,
                                                       exit |-> r.st, v |-> Nil])]
            IN  IF r.st = "ok" THEN Ok(I1, Nil) ELSE [r EXCEPT !.I = I1]
    IN  Value({Left(r)
               : r \in {Value({execute_block(I0, f.decl.body, env)
                               : I0 \in {[I EXCEPT !.envs = H,
                                                   !.frame = [fun |-> f.id, env |-> env]]}})}})

\* The closure `fun` of make_function, called with args.
fun(I, f, args) ==
    LET env == Len(I.envs) + 1
        H == zip_params(Append(I.envs, Environment(f.closure)), env, args, f.decl.params)
        Left(r) ==
            LET I1 == [r.I EXCEPT !.frame = I.frame,
                                  !.calls = Append(@, [fun |-> f.id, env |-> env,
                                                       exit |-> r.st,
                                                       v |-> IF r.st = "ReturnUnwind"
                                                             THEN r.v ELSE Nil])]
            IN  IF r.st = "ReturnUnwind" THEN Ok(I1, r.v)
                ELSE IF r.st = "ok" THEN Ok(I1, Nil)
                ELSE [r EXCEPT !.I = I1]
    IN  Value({Left(r)
               : r \in {Value({execute_block(I0, f.decl.body, env)
                               : I0 \in {[I EXCEPT !.envs = H,
                                                   !.frame = [fun |-> f.id, env |-> env]]}})}})

\* callee(*args) in visit_call
call(I, callee, args) ==
    CASE callee.t = "native" -> Ok(I, clock)
      [] callee.t = "fun" -> fun(I, callee, args)
      [] callee.t = "class" -> class_call(I, callee)

\* visit_call, once the callee and the arguments are values.
call_checked(I, callee, args) ==
    IF ~callable(callee)
    THEN Raise(I, "Can only call functions and classes.")
    ELSE IF Len(args) # arity(callee)
    THEN Raise(I, "Expected " \o ToString(arity(callee)) \o
                  " arguments but got " \o ToString(Len(args)) \o ".")
    ELSE call(I, callee, args)

\* Interpreter.visit_call
visit_call(I, e) ==
    Value({IF callee.st # "ok" THEN callee
           ELSE Value({IF args.st # "ok" THEN args
                       ELSE call_checked(args.I, callee.v, args.v)
                       : args \in {evaluate_args(callee.I, e.args, <<>>)}})
           : callee \in {evaluate(I, e.callee)}})

\* visit_assign, once the environment and the value are known.
assigned(o, env, e) ==
    LET a == assign(o.I.envs, env, e.name, o.v)
    IN  IF a.raised THEN Raise(o.I, a.message)
        ELSE Ok(bound([o.I EXCEPT !.envs = a.H], e, env,
                      getitem(o.I.envs, env, e.name).at), o.v)

\* Interpreter.visit_assign
visit_assign(I, e) ==
    Value({IF env = 0 THEN Crash(I, "RuntimeError")
           ELSE Value({IF o.st # "ok" THEN o ELSE assigned(o, env, e)
                       : o \in {evaluate(I, e.value)}})
           : env \in {resolved_env(I, e)}})

\* Interpreter.visit_variable
visit_variable(I, e) ==
    LET env == resolved_env(I, e)
        g == getitem(I.envs, env, e.name)
    IN  IF env = 0 THEN Crash(I, "RuntimeError")
        ELSE IF g.raised THEN Raise(I, g.message)
        ELSE Ok(bound(I, e, env, g.at), g.value)

\* visit_logical evaluating both operands before it decides.
visit_logical_eager(I, e) ==
    Value({IF left.st # "ok" THEN left
           ELSE Value({IF right.st # "ok" THEN right
                       ELSE CASE e.operator = "OR" ->
                                   IF truthy(left.v) THEN [right EXCEPT !.v = left.v] ELSE right
                              [] e.operator = "AND" ->
                                   IF ~truthy(left.v) THEN [right EXCEPT !.v = left.v] ELSE right
                              [] OTHER -> Crash(right.I, "RuntimeError")
                       : right \in {evaluate(left.I, e.right)}})
           : left \in {evaluate(I, e.left)}})

\* Interpreter.visit_logical
visit_logical(I, e) ==
    Value({IF left.st # "ok" THEN left
           ELSE CASE e.operator = "OR" ->
                       IF truthy(left.v) THEN left ELSE evaluate(left.I, e.right)
                  [] e.operator = "AND" ->
                       IF ~truthy(left.v) THEN left ELSE evaluate(left.I, e.right)
                  [] OTHER -> Crash(left.I, "RuntimeError")
           : left \in {evaluate(I, e.left)}})

\* Interpreter.visit_get
visit_get(I, e) ==
    Value({IF obj.st # "ok" THEN obj
           ELSE IF obj.v.t # "instance" THEN Raise(obj.I, "Only instances have properties.")
           ELSE instance_get(obj.I, obj.v, e.name)
           : obj \in {evaluate(I, e.object)}})

\* visit_set evaluating the value before it looks at the object.
visit_set_value_first(I, e) ==
    Value({IF obj.st # "ok" THEN obj
           ELSE Value({IF value.st # "ok" THEN value
                       ELSE IF obj.v.t # "instance"
                       THEN Raise(value.I, "Only instances have fields.")
                       ELSE Ok([value.I EXCEPT !.instances[obj.v.id].fields =
                                                   (e.name :> value.v) @@ @], Nil)
                       : value \in {evaluate(obj.I, e.value)}})
           : obj \in {evaluate(I, e.object)}})

\* Interpreter.visit_set (the method has no return statement)
visit_set(I, e) ==
    Value({IF obj.st # "ok" THEN obj
           ELSE IF obj.v.t # "instance" THEN Raise(obj.I, "Only instances have fields.")
           ELSE Value({IF value.st # "ok" THEN value
                       ELSE Ok([value.I EXCEPT !.instances[obj.v.id].fields =
                                                   (e.name :> value.v) @@ @], Nil)
                       : value \in {evaluate(obj.I, e.value)}})
           : obj \in {evaluate(I, e.object)}})

\* Interpreter.visit_binary
visit_binary(I, e) ==
    Value({IF left.st # "ok" THEN left
           ELSE Value({IF right.st # "ok" THEN right
                       ELSE binary(right.I, e.operator, left.v, right.v)
                       : right \in {evaluate(left.I, e.right)}})
           : left \in {evaluate(I, e.left)}})

\* Interpreter.visit_unary
visit_unary(I, e) ==
    Value({IF right.st # "ok" THEN right ELSE unary(right.I, e.operator, right.v)
           : right \in {evaluate(I, e.right)}})

\* Interpreter.evaluate: expr.accept(self)
evaluate(I, e) ==
    CASE e.type = "Assign" -> visit_assign(I, e)
      [] e.type = "Binary" -> visit_binary(I, e)
      [] e.type = "Call" -> visit_call(I, e)
      [] e.type = "Get" -> visit_get(I, e)
      [] e.type = "Grouping" -> evaluate(I, e.value)
      [] e.type = "Literal" -> Ok(I, e.value)
      [] e.type = "Logical" -> visit_logical(I, e)
      [] e.type = "Set" -> visit_set(I, e)
      [] e.type = "This" -> Crash(I, "NotImplementedError")
      [] e.type = "Unary" -> visit_unary(I, e)
      [] e.type = "Variable" -> visit_variable(I, e)

\* The loop of visit_class over c.methods, clss being the LoxClass so far.
class_methods(I, clss, methods) ==
    IF methods = <<>> THEN Ok(I, clss)
    ELSE IF Head(methods).name = "init" THEN Crash(I, "NotImplementedError")
    ELSE Value({class_methods(m.I, [clss EXCEPT !.attrs = (Head(methods).name :> m.v) @@ @],
                              Tail(methods))
                : m \in {make_function(I, Head(methods))}})

\* Interpreter.visit_class
visit_class(I, c) ==
    Value({IF clss.st # "ok" THEN clss
           ELSE Ok([clss.I EXCEPT !.envs = setitem(@, clss.I.environment, c.name, clss.v)],
                   Nil)
           : clss \in {class_methods([I EXCEPT !.objects = @ + 1],
                                     [t |-> "class", id |-> I.objects + 1,
                                      attrs |-> ("name" :> Str(c.name))],
                                     c.methods)}})

\* Interpreter.visit_return
visit_return(I, ret) ==
    Value({IF o.st # "ok" THEN o
           ELSE [I |-> [o.I EXCEPT !.returns = Append(@, [env |-> o.I.frame.env, v |-> o.v])],
                 st |-> "ReturnUnwind", v |-> o.v]
           : o \in {IF ret.value # None THEN evaluate(I, ret.value) ELSE Ok(I, Nil)}})

\* Interpreter.visit_while
visit_while(I, w) ==
    Value({IF c.st # "ok" THEN c
           ELSE IF ~truthy(c.v) THEN Ok(c.I, Nil)
           ELSE Value({IF b.st # "ok" THEN b ELSE visit_while(b.I, w)
                       : b \in {execute(c.I, w.body)}})
           : c \in {evaluate(I, w.condition)}})

\* Interpreter.visit_block
visit_block(I, block) ==
    Value({execute_block(I1, block.statements, Len(I1.envs))
           : I1 \in {[I EXCEPT !.envs = Append(@, Environment(I.environment))]}})

\* Interpreter.visit_function
visit_function(I, f) ==
    Value({Ok([m.I EXCEPT !.envs = setitem(@, m.I.environment, f.name, m.v)], Nil)
           : m \in {make_function(I, f)}})

\* Interpreter.visit_if
visit_if(I, i) ==
    Value({IF c.st # "ok" THEN c
           ELSE IF truthy(c.v) THEN execute(c.I, i.then_branch)
           ELSE IF i.else_branch # None THEN execute(c.I, i.else_branch)
           ELSE Ok(c.I, Nil)
           : c \in {evaluate(I, i.condition)}})

\* Interpreter.visit_expression
visit_expression(I, ex) ==
    Value({IF o.st # "ok" THEN o ELSE Ok(o.I, Nil) : o \in {evaluate(I, ex.expr)}})

\* Interpreter.visit_print
visit_print(I, pr) ==
    Value({IF o.st # "ok" THEN o
           ELSE Ok([o.I EXCEPT !.out = Append(@, stringify(o.I, o.v))], Nil)
           : o \in {evaluate(I, pr.expr)}})

\* Interpreter.visit_var
visit_var(I, var) ==
    Value({IF o.st # "ok" THEN o
           ELSE Ok([o.I EXCEPT !.envs = setitem(@, o.I.environment, var.name, o.v)], Nil)
           : o \in {IF var.initializer # None THEN evaluate(I, var.initializer)
                    ELSE Ok(I, Nil)}})

\* Interpreter.execute: st.accept(self)
execute(I, st) ==
    CASE st.type = "Block" -> visit_block(I, st)
      [] st.type = "Class" -> visit_class(I, st)
      [] st.type = "Expression" -> visit_expression(I, st)
      [] st.type = "Function" -> visit_function(I, st)
      [] st.type = "If" -> visit_if(I, st)
      [] st.type = "Return" -> visit_return(I, st)
      [] st.type = "Print" -> visit_print(I, st)
      [] st.type = "Var" -> visit_var(I, st)
      [] st.type = "While" -> visit_while(I, st)

(***************************************************************************)
(* app/parser.py, class OldParser.  A parser is a record p:                *)
(*   tokens   the token list scan_tokens returned, ending with EOF         *)
(*   current  the 0-based position                                         *)
(*   errors   what the report callback has received                        *)
(* and, for the properties below, a history:                               *)
(*   raised   how many ParseErrors were raised                             *)
(*   caught   how many of them the except clause of declaration caught     *)
(* A parsing method returns [p, st, v]: st is "ok" with the node or token  *)
(* v, "ParseError" when it raised, or "loops" when it never returns.  The  *)
(* text `where` of a report is the sequence of its pieces.  The            *)
(* identity of a Variable node is the position of its token, that of an    *)
(* Assign node the position of its '='.  The value of a Literal is nil,    *)
(* a Bool, the float [int, frac] of a NUMBER token or the str              *)
(* [t |-> "str", s |-> the characters] of a STRING token.                  *)
(***************************************************************************)
OldParser(toks) ==
    [tokens |-> toks, current |-> 0, errors |-> <<>>, raised |-> 0, caught |-> 0]

Parsed(p, v) == [p |-> p, st |-> "ok", v |-> v]
\* `raise self.error(...)`, p being the parser after the report
ParseError(p) == [p |-> [p EXCEPT !.raised = @ + 1], st |-> "ParseError", v |-> None]

parser_peek(p) == p.tokens[p.current + 1]
at_end(p) == parser_peek(p).type = "EOF"
parser_pop(p) == [p EXCEPT !.current = @ + 1]

\* OldParser.error: the parser after the report (the ParseError it returns is
\* raised by the caller or dropped).
parser_error(p, token, message) ==
    [p EXCEPT !.errors =
        Append(@, [line |-> token.line,
                   where |-> IF token.type # "EOF" THEN <<" at '">> \o token.lexeme \o <<"'">>
                             ELSE <<" at end">>,
                   message |-> message])]

\* OldParser.take
parser_take(p, t, message) ==
    IF parser_peek(p).type = t THEN Parsed(parser_pop(p), parser_peek(p))
    ELSE ParseError(parser_error(p, parser_peek(p), message))

token_type_2_char ==
    [t \in {char_tokens[c] : c \in DOMAIN char_tokens} |->
        CHOOSE c \in DOMAIN char_tokens : char_tokens[c] = t]

\* OldParser.expect, and the exit of the context manager followed_by
expect(p, t, after) ==
    parser_take(p, t, "Expect '" \o token_type_2_char[t] \o "' after " \o after)

\* `with self.followed_by(t, after=...): return <r>`
followed_by(r, t, after) ==
    IF r.st # "ok" THEN r
    ELSE Value({IF e.st # "ok" THEN e ELSE Parsed(e.p, r.v) : e \in {expect(r.p, t, after)}})

\* logic_or, logic_and, equality, comparison, term, factor: the token types
\* each hands to take_binary and the node it builds; the level after the last
\* is unary.
binary_levels ==
    <<[types |-> {"OR"}, tt |-> "Logical"],
      [types |-> {"AND"}, tt |-> "Logical"],
      [types |-> {"BANG_EQUAL", "EQUAL_EQUAL"}, tt |-> "Binary"],
      [types |-> {"GREATER", "GREATER_EQUAL", "LESS", "LESS_EQUAL"}, tt |-> "Binary"],
      [types |-> {"MINUS", "PLUS"}, tt |-> "Binary"],
      [types |-> {"STAR", "SLASH"}, tt |-> "Binary"]>>

RECURSIVE assignment(_)
RECURSIVE take_binary(_, _)
RECURSIVE take_binary_loop(_, _)
RECURSIVE unary_expr(_)
RECURSIVE call_loop(_)
RECURSIVE finish_call_args(_, _)
RECURSIVE primary(_)

\* OldParser.expression
expression(p) == assignment(p)

\* OldParser.assignment
assignment(p) ==
    Value({IF name.st # "ok" \/ parser_peek(name.p).type # "EQUAL" THEN name
           ELSE Value({IF value.st # "ok" THEN value
                       ELSE IF name.v.type = "Variable"
                       THEN Parsed(value.p, Assign(name.p.current + 1, name.v.name, value.v))
                       ELSE Parsed(parser_error(value.p, parser_peek(name.p),
                                                "Invalid assignment target."), name.v)
                       : value \in {assignment(parser_pop(name.p))}})
           : name \in {take_binary(p, 1)}})

\* The `while op := self.try_take(*types)` loop of take_binary, e being r.v.
take_binary_loop(r, level) ==
    IF r.st # "ok" \/ parser_peek(r.p).type \notin binary_levels[level].types THEN r
    ELSE Value({IF right.st # "ok" THEN right
                ELSE take_binary_loop(
                        Parsed(right.p,
                               IF binary_levels[level].tt = "Logical"
                               THEN Logical(r.v, parser_peek(r.p).type, right.v)
                               ELSE Binary(r.v, parser_peek(r.p).type, right.v)),
                        level)
                : right \in {take_binary(parser_pop(r.p), level + 1)}})

\* OldParser.take_binary for the level-th of binary_levels
take_binary(p, level) ==
    IF level > Len(binary_levels) THEN unary_expr(p)
    ELSE Value({take_binary_loop(e, level) : e \in {take_binary(p, level + 1)}})

\* `len(args) >= 255` reading > for >=.
too_many_late(args) == Len(args) > 255

\* `len(args) >= 255` of finish_call
too_many(args) == Len(args) >= 255

\* One pass of the `while self.try_take(TT.COMMA)` loop of finish_call, the
\* next token being the comma: args is r.v.
finish_call_pass(r) ==
    Value({IF a.st # "ok" THEN a ELSE Parsed(a.p, Append(r.v, a.v))
           : a \in {expression(
                       IF too_many(r.v)
                       THEN parser_error(parser_pop(r.p), parser_peek(parser_pop(r.p)),
                                         "Can't have more than 255 arguments.")
                       ELSE parser_pop(r.p))}})

\* What follows the loop of finish_call: args is r.v.
finish_call_close(r, callee) ==
    Value({IF e.st # "ok" THEN e ELSE Parsed(e.p, Call(callee, r.v))
           : e \in {expect(r.p, "RIGHT_PAREN", "arguments.")}})

\* OldParser.finish_call after the first argument: args is r.v
finish_call_args(r, callee) ==
    IF r.st # "ok" THEN r
    ELSE IF parser_peek(r.p).type = "COMMA"
    THEN Value({finish_call_args(q, callee) : q \in {finish_call_pass(r)}})
    ELSE finish_call_close(r, callee)

\* `args = [self.expression()]` of finish_call
finish_call_first(p) ==
    Value({IF a.st # "ok" THEN a ELSE Parsed(a.p, <<a.v>>) : a \in {expression(p)}})

\* OldParser.finish_call
finish_call(p, callee) ==
    IF parser_peek(p).type = "RIGHT_PAREN" THEN Parsed(parser_pop(p), Call(callee, <<>>))
    ELSE Value({finish_call_args(a, callee) : a \in {finish_call_first(p)}})

\* The `while self.try_take(TT.LEFT_PAREN)` loop of call, e being r.v.
call_loop(r) ==
    IF r.st # "ok" \/ parser_peek(r.p).type # "LEFT_PAREN" THEN r
    ELSE Value({call_loop(c) : c \in {finish_call(parser_pop(r.p), r.v)}})

\* OldParser.call
parser_call(p) == Value({call_loop(e) : e \in {primary(p)}})

\* OldParser.unary
unary_expr(p) ==
    IF parser_peek(p).type \in {"BANG", "MINUS"}
    THEN Value({IF right.st # "ok" THEN right
                ELSE Parsed(right.p, Unary(parser_peek(p).type, right.v))
                : right \in {unary_expr(parser_pop(p))}})
    ELSE parser_call(p)

\* OldParser.primary
primary(p) ==
    LET e == parser_peek(p)
    IN  CASE e.type = "NUMBER" -> Parsed(parser_pop(p), Literal(e.literal))
          [] e.type = "STRING" ->
                Parsed(parser_pop(p), Literal([t |-> "str", s |-> e.literal]))
          [] e.type = "NIL" -> Parsed(parser_pop(p), Literal(Nil))
          [] e.type \in {"TRUE", "FALSE"} ->
                Parsed(parser_pop(p), Literal(Bool(e.type = "TRUE")))
          [] e.type = "LEFT_PAREN" ->
                Value({followed_by(IF g.st # "ok" THEN g ELSE Parsed(g.p, Grouping(g.v)),
                                   "RIGHT_PAREN", "expression")
                       : g \in {expression(parser_pop(p))}})
          [] e.type = "IDENTIFIER" -> Parsed(parser_pop(p), Variable(p.current + 1, e.lexeme))
          [] OTHER -> ParseError(parser_error(p, e, "Expect expression"))

\* OldParser.synchronize
RECURSIVE synchronize(_)
synchronize(p) ==
    IF at_end(p) THEN p
    ELSE IF parser_peek(p).type = "SEMICOLON" THEN parser_pop(p)
    ELSE IF parser_peek(p).type \in
            {"CLASS", "FUN", "VAR", "FOR", "IF", "WHILE", "PRINT", "RETURN"} THEN p
    ELSE synchronize(parser_pop(p))

RECURSIVE declaration(_)
RECURSIVE statement(_)
RECURSIVE block_loop(_)
RECURSIVE fun_params(_)

\* OldParser.expression_statement
expression_statement(p) ==
    Value({followed_by(IF e.st # "ok" THEN e ELSE Parsed(e.p, Expression(e.v)),
                       "SEMICOLON", "expression.")
           : e \in {expression(p)}})

\* OldParser.var_declaration
var_declaration(p) ==
    Value({IF name.st # "ok" THEN name
           ELSE IF parser_peek(name.p).type = "EQUAL"
           THEN Value({followed_by(IF e.st # "ok" THEN e
                                   ELSE Parsed(e.p, Var(name.v.lexeme, e.v)),
                                   "SEMICOLON", "variable declaration.")
                       : e \in {expression(parser_pop(name.p))}})
           ELSE followed_by(Parsed(name.p, Var(name.v.lexeme, None)),
                            "SEMICOLON", "variable declaration.")
           : name \in {parser_take(p, "IDENTIFIER", "Expect variable name.")}})

\* The loop of OldParser.block: r.v is the list `statements` so far.  A
\* declaration that failed where it started and was not moved by synchronize
\* fails again in every later pass: the loop does not end.
block_loop(r) ==
    IF r.st # "ok" THEN r
    ELSE IF parser_peek(r.p).type = "RIGHT_BRACE" THEN Parsed(parser_pop(r.p), r.v)
    ELSE IF at_end(r.p)
    THEN ParseError(parser_error(r.p, parser_peek(r.p), "Expect '}' after block."))
    ELSE Value({IF d.st # "ok" THEN d
                ELSE IF d.p.current = r.p.current THEN [d EXCEPT !.st = "loops"]
                ELSE block_loop(Parsed(d.p, IF d.v = None THEN r.v ELSE Append(r.v, d.v)))
                : d \in {declaration(r.p)}})

\* OldParser.block
block(p) == block_loop(Parsed(p, <<>>))

\* The parameters of OldParser.fun after the first: r.v is `params`.
fun_params(r) ==
    IF r.st # "ok" THEN r
    ELSE IF parser_peek(r.p).type = "COMMA"
    THEN Value({IF name.st # "ok" THEN name
                ELSE fun_params(Parsed(name.p, Append(r.v, name.v.lexeme)))
                : name \in {parser_take(parser_pop(r.p), "IDENTIFIER",
                                        "Expect parameter name.")}})
    ELSE Value({IF e.st # "ok" THEN e ELSE Parsed(e.p, r.v)
                : e \in {expect(r.p, "RIGHT_PAREN", "parameters.")}})

\* OldParser.fun
parser_fun(p, kind) ==
    Value({IF name.st # "ok" THEN name
      ELSE Value({IF paren.st # "ok" THEN paren
        ELSE Value({IF params.st # "ok" THEN params
          ELSE Value({IF brace.st # "ok" THEN brace
            ELSE Value({IF body.st # "ok" THEN body
                        ELSE Parsed(body.p, Function(name.v.lexeme, params.v, body.v))
                        : body \in {block(brace.p)}})
            : brace \in {parser_take(params.p, "LEFT_BRACE",
                                     "Expect '{' before " \o kind \o " body.")}})
          : params \in {IF parser_peek(paren.p).type = "RIGHT_PAREN"
                        THEN Parsed(parser_pop(paren.p), <<>>)
                        ELSE Value({IF first.st # "ok" THEN first
                                    ELSE fun_params(Parsed(first.p, <<first.v.lexeme>>))
                                    : first \in {parser_take(paren.p, "IDENTIFIER",
                                                             "Expect parameter name.")}})}})
        : paren \in {expect(name.p, "LEFT_PAREN", kind \o " name.")}})
      : name \in {parser_take(p, "IDENTIFIER", "Expect " \o kind \o " name.")}})

\* `self.expect(TT.LEFT_PAREN, after=...); condition = self.expression();
\* self.expect(TT.RIGHT_PAREN, after="condition.")` of if and while
condition_in_parens(p, after) ==
    Value({IF paren.st # "ok" THEN paren
           ELSE Value({followed_by(condition, "RIGHT_PAREN", "condition.")
                       : condition \in {expression(paren.p)}})
           : paren \in {expect(p, "LEFT_PAREN", after)}})

\* for_loop with the increment put before the body.
for_loop_increment_first(initializer, condition, increment, body) ==
    LET body1 == IF increment # None THEN Block(<<Expression(increment), body>>) ELSE body
        condition1 == IF condition = None THEN Literal(Bool(TRUE)) ELSE condition
        body2 == While(condition1, body1)
    IN  IF initializer # None THEN Block(<<initializer, body2>>) ELSE body2

\* OldParser.for_statement, once the clauses are parsed: the desugared loop
for_loop(initializer, condition, increment, body) ==
    LET body1 == IF increment # None THEN Block(<<body, Expression(increment)>>) ELSE body
        condition1 == IF condition = None THEN Literal(Bool(TRUE)) ELSE condition
        body2 == While(condition1, body1)
    IN  IF initializer # None THEN Block(<<initializer, body2>>) ELSE body2

\* OldParser.for_statement
for_statement(p) ==
    Value({IF paren.st # "ok" THEN paren
      ELSE Value({IF initializer.st # "ok" THEN initializer
        ELSE Value({IF condition.st # "ok" THEN condition
          ELSE Value({IF increment.st # "ok" THEN increment
            ELSE Value({IF body.st # "ok" THEN body
                        ELSE Parsed(body.p, for_loop(initializer.v, condition.v,
                                                     increment.v, body.v))
                        : body \in {statement(increment.p)}})
            : increment \in {IF parser_peek(condition.p).type = "RIGHT_PAREN"
                             THEN Parsed(parser_pop(condition.p), None)
                             ELSE Value({followed_by(e, "RIGHT_PAREN", "for clauses.")
                                         : e \in {expression(condition.p)}})}})
          : condition \in {IF parser_peek(initializer.p).type = "SEMICOLON"
                           THEN Parsed(parser_pop(initializer.p), None)
                           ELSE Value({followed_by(e, "SEMICOLON", "loop condition.")
                                       : e \in {expression(initializer.p)}})}})
        : initializer \in {CASE parser_peek(paren.p).type = "SEMICOLON" ->
                                    Parsed(parser_pop(paren.p), None)
                             [] parser_peek(paren.p).type = "VAR" ->
                                    var_declaration(parser_pop(paren.p))
                             [] OTHER -> expression_statement(paren.p)}})
      : paren \in {expect(p, "LEFT_PAREN", "'for'.")}})

\* OldParser.statement
statement(p) ==
    LET t == parser_peek(p).type
        p1 == parser_pop(p)
    IN  CASE t = "FOR" -> for_statement(p1)
          [] t = "PRINT" ->
                Value({followed_by(IF e.st # "ok" THEN e ELSE Parsed(e.p, PrintStmt(e.v)),
                                   "SEMICOLON", "value.")
                       : e \in {expression(p1)}})
          [] t = "IF" ->
                Value({IF condition.st # "ok" THEN condition
                  ELSE Value({IF then_branch.st # "ok" THEN then_branch
                    ELSE IF parser_peek(then_branch.p).type # "ELSE"
                    THEN Parsed(then_branch.p, If(condition.v, then_branch.v, None))
                    ELSE Value({IF else_branch.st # "ok" THEN else_branch
                                ELSE Parsed(else_branch.p,
                                            If(condition.v, then_branch.v, else_branch.v))
                                : else_branch \in {statement(parser_pop(then_branch.p))}})
                    : then_branch \in {statement(condition.p)}})
                  : condition \in {condition_in_parens(p1, "'if'.")}})
          [] t = "RETURN" ->
                IF parser_peek(p1).type = "SEMICOLON" THEN Parsed(parser_pop(p1), Return(None))
                ELSE Value({followed_by(IF e.st # "ok" THEN e ELSE Parsed(e.p, Return(e.v)),
                                        "SEMICOLON", "return value.")
                            : e \in {expression(p1)}})
          [] t = "WHILE" ->
                Value({IF condition.st # "ok" THEN condition
                  ELSE Value({IF body.st # "ok" THEN body
                              ELSE Parsed(body.p, While(condition.v, body.v))
                              : body \in {statement(condition.p)}})
                  : condition \in {condition_in_parens(p1, "'while'.")}})
          [] t = "LEFT_BRACE" ->
                Value({IF b.st # "ok" THEN b ELSE Parsed(b.p, Block(b.v)) : b \in {block(p1)}})
          [] OTHER -> expression_statement(p)

\* OldParser.declaration: the statement, or None after a ParseError was caught
\* and synchronize has run; `at` is the position the parser was at when the
\* ParseError reached the except clause, -1 without one.
declaration(p) ==
    Value({IF r.st = "ParseError"
           THEN [p |-> synchronize([r.p EXCEPT !.caught = @ + 1]), st |-> "ok", v |-> None,
                 at |-> r.p.current]
           ELSE [p |-> r.p, st |-> r.st, v |-> r.v, at |-> -1]
           : r \in {CASE parser_peek(p).type = "FUN" -> parser_fun(parser_pop(p), "function")
                      [] parser_peek(p).type = "VAR" -> var_declaration(parser_pop(p))
                      [] OTHER -> statement(p)}})

(***************************************************************************)
(* app/ast.py, class AstPrinter.  A text is the sequence of its            *)
(* characters, which is what Scanner takes as source.                      *)
(***************************************************************************)
\* str(n) of an int n >= 0
RECURSIVE DecimalDigits(_)
DecimalDigits(n) ==
    LET d == <<"0", "1", "2", "3", "4", "5", "6", "7", "8", "9">>[(n % 10) + 1]
    IN  IF n < 10 THEN <<d>> ELSE Append(DecimalDigits(n \div 10), d)

\* sep.join(texts)
RECURSIVE join(_, _)
join(sep, texts) ==
    IF texts = <<>> THEN <<>>
    ELSE IF Len(texts) = 1 THEN texts[1]
    ELSE texts[1] \o sep \o join(sep, Tail(texts))

\* token.lexeme of an operator token, which the nodes keep as its type
operator_lexeme(type) ==
    CASE type = "BANG" -> <<"!">>
      [] type = "BANG_EQUAL" -> <<"!", "=">>
      [] type = "EQUAL_EQUAL" -> <<"=", "=">>
      [] type = "GREATER" -> <<">">>
      [] type = "GREATER_EQUAL" -> <<">", "=">>
      [] type = "LESS" -> <<"<">>
      [] type = "LESS_EQUAL" -> <<"<", "=">>
      [] type = "MINUS" -> <<"-">>
      [] type = "PLUS" -> <<"+">>
      [] type = "STAR" -> <<"*">>
      [] type = "SLASH" -> <<"/">>
      [] type = "OR" -> <<"o", "r">>
      [] type = "AND" -> <<"a", "n", "d">>

\* str.upper() of the lexemes `or` and `and`
upper(lex) == IF lex = <<"o", "r">> THEN <<"O", "R">> ELSE <<"A", "N", "D">>

\* AstPrinter.visit_literal
visit_literal(v) ==
    CASE "b" \in DOMAIN v -> IF v.b THEN <<"t", "r", "u", "e">> ELSE <<"f", "a", "l", "s", "e">>
      [] "int" \in DOMAIN v ->
            DecimalDigits(v.int) \o <<".">> \o (IF v.frac = <<>> THEN <<"0">> ELSE v.frac)
      [] "s" \in DOMAIN v -> v.s
      [] OTHER -> <<"n", "i", "l">>

RECURSIVE view(_)

\* AstPrinter.view of a list
view_list(sep, nodes) == join(sep, [i \in DOMAIN nodes |-> view(nodes[i])])

\* AstPrinter.parens
parens(name, exprs) == <<"(">> \o name \o <<" ">> \o view_list(<<" ">>, exprs) \o <<")">>

\* AstPrinter.visit_block
print_block(statements) == <<"{", " ">> \o view_list(<<" ">>, statements) \o <<" ", "}">>

\* AstPrinter.view of a node: its accept
view(x) ==
    CASE x.type = "Assign" -> parens(<<"=", " ">> \o x.name, <<x.value>>)
      [] x.type = "Binary" -> parens(operator_lexeme(x.operator), <<x.left, x.right>>)
      [] x.type = "Call" ->
            view(x.callee) \o <<"(">> \o view_list(<<",", " ">>, x.args) \o <<")">>
      [] x.type = "Grouping" -> parens(<<"g", "r", "o", "u", "p">>, <<x.value>>)
      [] x.type = "Logical" -> parens(upper(operator_lexeme(x.operator)), <<x.left, x.right>>)
      [] x.type = "Literal" -> visit_literal(x.value)
      [] x.type = "Unary" -> parens(operator_lexeme(x.operator), <<x.right>>)
      [] x.type = "Variable" -> x.name
      [] x.type = "Block" -> print_block(x.statements)
      [] x.type = "Expression" -> view(x.expr) \o <<";">>
      [] x.type = "Function" ->
            <<"f", "u", "n">> \o <<" ">> \o x.name \o <<"(">> \o join(<<",", " ">>, x.params)
            \o <<")", " ">> \o print_block(x.body)
      [] x.type = "If" ->
            <<"i", "f">> \o <<" ", "(">> \o view(x.condition) \o <<")", " ", "[">>
            \o view(x.then_branch) \o <<"]">>
            \o (IF x.else_branch # None
                THEN <<" ">> \o <<"e", "l", "s", "e">> \o <<" ", "[">> \o view(x.else_branch) \o <<"]">>
                ELSE <<>>)
      [] x.type = "Return" ->
            <<"r", "e", "t", "u", "r", "n">> \o (IF x.value # None THEN <<" ">> \o view(x.value) ELSE <<>>)
            \o <<";">>
      [] x.type = "Print" -> <<"p", "r", "i", "n", "t">> \o <<" ">> \o view(x.expr) \o <<";">>
      [] x.type = "Var" ->
            <<"v", "a", "r">> \o <<" ">> \o x.name
            \o (IF x.initializer # None THEN <<" ", "=", " ">> \o view(x.initializer)
                ELSE <<>>)
            \o <<";">>
      [] x.type = "While" ->
            <<"w", "h", "i", "l", "e">> \o <<" ", "(">> \o view(x.condition) \o <<")", " ", "[">>
            \o view(x.body) \o <<"]">>

(***************************************************************************)
(* Scanner.scan_tokens, one loop pass at a time                            *)
(***************************************************************************)

\* scan_tokens_step with the EOF test moved before the append: the list is
\* returned without its EOF token.
scan_tokens_step_return_first(s, toks) ==
    LET r == scan_token(s)
    IN  IF raises(r) THEN [s |-> r.s, tokens |-> toks, returned |-> FALSE, raised |-> TRUE]
        ELSE IF r.t = None
        THEN [s |-> r.s, tokens |-> toks, returned |-> FALSE, raised |-> FALSE]
        ELSE IF r.t.type = "EOF"
        THEN [s |-> r.s, tokens |-> toks, returned |-> TRUE, raised |-> FALSE]
        ELSE [s |-> r.s, tokens |-> Append(toks, r.t), returned |-> FALSE, raised |-> FALSE]

\* One pass of the `while True` loop of Scanner.scan_tokens on the scanner s and
\* the list toks: the scanner and the list after it, whether it returned and
\* whether an exception left it.
scan_tokens_step(s, toks) ==
    LET r == scan_token(s)
    IN  IF raises(r) THEN [s |-> r.s, tokens |-> toks, returned |-> FALSE, raised |-> TRUE]
        ELSE IF r.t = None
        THEN [s |-> r.s, tokens |-> toks, returned |-> FALSE, raised |-> FALSE]
        ELSE [s |-> r.s, tokens |-> Append(toks, r.t), returned |-> r.t.type = "EOF",
              raised |-> FALSE]

(***************************************************************************)
(* SpecScan: Scanner(source, report).scan_tokens() on every source of at   *)
(* most MaxSourceLen characters of ScanChars.                              *)
(***************************************************************************)
MaxSourceLen == 3
ScanChars == {".", "=", " ", "\n", "1", "\"", "/", "a", "$", "²"}
Sources == UNION {[1..n -> ScanChars] : n \in 0..MaxSourceLen}

Idle == "idle"

\* No OldParser is running.
ParseIdle == parser = Idle /\ parse_result = Idle /\ parse_pc = Idle /\ parse_log = Idle

\* main() is not running.
MainIdle ==
    /\ pc = Idle /\ stmt = Idle /\ interpreter = Idle /\ ip = Idle
    /\ had_error = Idle /\ stderr = Idle /\ exit_code = Idle

InitScan ==
    /\ \E source \in Sources, compat \in BOOLEAN : scanner = Scanner(source, compat)
    /\ tokens = <<>>
    /\ scan_pc = "scanning"
    /\ envs = Idle
    /\ env_op = Idle
    /\ MainIdle
    /\ ParseIdle

\* scan_token returned None: `continue`.
ScanContinue ==
    /\ scan_pc = "scanning"
    /\ LET r == scan_tokens_step(scanner, tokens)
       IN  /\ ~r.returned /\ ~r.raised /\ r.tokens = tokens
           /\ scanner' = r.s
    /\ UNCHANGED <<tokens, scan_pc, envs, env_op, main_vars, parse_vars>>

\* scan_token returned a token other than EOF: it is appended.
ScanAppend ==
    /\ scan_pc = "scanning"
    /\ LET r == scan_tokens_step(scanner, tokens)
       IN  /\ ~r.returned /\ r.tokens # tokens
           /\ scanner' = r.s
           /\ tokens' = r.tokens
    /\ UNCHANGED <<scan_pc, envs, env_op, main_vars, parse_vars>>

\* scan_token returned EOF: it is appended and scan_tokens returns the list.
ScanReturn ==
    /\ scan_pc = "scanning"
    /\ LET r == scan_tokens_step(scanner, tokens)
       IN  /\ r.returned
           /\ scanner' = r.s
           /\ tokens' = r.tokens
    /\ scan_pc' = "returned"
    /\ UNCHANGED <<envs, env_op, main_vars, parse_vars>>

\* scan_token raised: the exception leaves scan_tokens.
ScanRaise ==
    /\ scan_pc = "scanning"
    /\ LET r == scan_tokens_step(scanner, tokens)
       IN  /\ r.raised
           /\ scanner' = r.s
    /\ scan_pc' = "raised"
    /\ UNCHANGED <<tokens, envs, env_op, main_vars, parse_vars>>

NextScan == ScanContinue \/ ScanAppend \/ ScanReturn \/ ScanRaise

SpecScan == InitScan /\ [][NextScan]_vars

\* scan_tokens is a loop of one thread: it keeps running until it returns.
FairSpecScan == SpecScan /\ WF_vars(NextScan)

\* C1: for every source, scan_tokens returns, and the list it returns ends with
\* an EOF token and holds no other EOF token (unexpected characters,
\* unterminated strings and a trailing comment without newline included).
\* It returns because no exception leaves it and every pass of its loop that
\* does not return moves `current` forward, and `current` never passes the
\* end by more than one.
C1_ScanEndsWithOneEOF ==
    /\ [](scan_pc # "raised")
    /\ [](scan_pc = "returned" =>
            /\ tokens # <<>>
            /\ tokens[Len(tokens)].type = "EOF"
            /\ \A i \in 1..(Len(tokens) - 1) : tokens[i].type # "EOF")
    /\ [](scan_pc = "scanning" =>
            /\ scanner.current <= Len(scanner.source) + 1
            /\ \A i \in 1..Len(tokens) : tokens[i].type # "EOF")
    /\ [][scan_pc' = "returned" \/ scanner'.current > scanner.current]_vars

\* scan_tokens has returned on a source with an unexpected character and an
\* unterminated string.
C1_Witness ==
    /\ scan_pc = "returned"
    /\ \E i \in DOMAIN scanner.errors : scanner.errors[i].message = "Unterminated string."
    /\ \E i \in DOMAIN scanner.errors : scanner.errors[i].message = "Unexpected character: $"

\* The characters of ScanChars that start no token.
Unexpected == {"$"}

\* The source with its unexpected characters replaced by spaces.
Blank(source) == [i \in DOMAIN source |-> IF source[i] \in Unexpected THEN " " ELSE source[i]]

\* What the report callback gets for an unexpected character c on a line.
UnexpectedCharacter(compat, c, line) ==
    [line |-> line, where |-> "",
     message |-> IF compat THEN "Unexpected character." ELSE "Unexpected character: " \o c]

\* C17: a scan_token call that starts at a character that starts no token
\* reports it once, moves over that one character, gives no token, and the
\* loop goes on; on a source without strings and comments the tokens returned
\* are those of the source with the unexpected characters blanked, one report
\* per unexpected character; and no exception leaves the scanner.
C17_UnexpectedCharacter ==
    /\ [][(scan_pc = "scanning" /\ peek(scanner) \in Unexpected) =>
            /\ scanner'.errors = Append(scanner.errors,
                    UnexpectedCharacter(scanner.compat, peek(scanner), scanner.line))
            /\ scanner'.current = scanner.current + 1
            /\ tokens' = tokens
            /\ scan_pc' = "scanning"]_vars
    /\ []((/\ scan_pc = "returned"
            /\ \A i \in DOMAIN scanner.source : scanner.source[i] \notin {"\"", "/"}) =>
                /\ tokens = scan_tokens(Scanner(Blank(scanner.source), scanner.compat),
                                        <<>>).tokens
                /\ Len(scanner.errors) =
                      Cardinality({i \in DOMAIN scanner.source :
                                      scanner.source[i] \in Unexpected}))
    /\ [](scan_pc # "raised")

\* The first character of the token scan_token is about to scan is a quote that
\* no later quote closes.
UnterminatedAhead ==
    /\ scan_pc = "scanning"
    /\ peek(scanner) = "\""
    /\ \A i \in (scanner.current + 2)..Len(scanner.source) : scanner.source[i] # "\""

\* C18: a scan_token call that starts at a quote without a closing quote
\* reports "Unterminated string." once, with the line of that quote, and
\* gives no token; the rest of the source is consumed, so the list returned
\* ends with the tokens before the quote and EOF, and holds no STRING token.
C18_UnterminatedString ==
    /\ [][UnterminatedAhead =>
            /\ scanner'.errors = Append(scanner.errors,
                    [line |-> scanner.line, where |-> "",
                     message |-> "Unterminated string."])
            /\ tokens' = tokens
            /\ scanner'.current > Len(scanner.source)
            /\ scan_pc' = "scanning"]_vars
    /\ [][(scan_pc = "scanning" /\ scanner.current > Len(scanner.source)) =>
            /\ scan_pc' = "returned"
            /\ Len(tokens') = Len(tokens) + 1
            /\ scanner'.errors = scanner.errors]_vars

(***************************************************************************)
(* SpecEnv: at most MaxEnvs Environment objects, built and used the way    *)
(* test_environment.py does: Environment(parent), env[key] = value,        *)
(* env[name_token] and env.assign(name_token, value).                      *)
(***************************************************************************)
MaxEnvs == 2
EnvNames == {"a", "b"}
EnvValues == {1, 2}

InitEnv ==
    /\ envs = <<>>
    /\ env_op = [op |-> "none"]
    /\ scanner = Idle
    /\ tokens = Idle
    /\ scan_pc = Idle
    /\ MainIdle
    /\ ParseIdle

\* Environment(parent)
EnvNew ==
    /\ Len(envs) < MaxEnvs
    /\ \E parent \in 0..Len(envs) :
        /\ envs' = Append(envs, Environment(parent))
        /\ env_op' = [op |-> "new", env |-> Len(envs) + 1]
    /\ UNCHANGED <<scanner, tokens, scan_pc, main_vars, parse_vars>>

\* env[key] = value
EnvDefine ==
    /\ \E e \in DOMAIN envs, key \in EnvNames, value \in EnvValues :
        /\ envs' = setitem(envs, e, key, value)
        /\ env_op' = [op |-> "define", env |-> e, name |-> key, value |-> value]
    /\ UNCHANGED <<scanner, tokens, scan_pc, main_vars, parse_vars>>

\* env[name_token]
EnvGet ==
    /\ \E e \in DOMAIN envs, name \in EnvNames :
        LET r == getitem(envs, e, name)
        IN  env_op' = [op |-> "get", env |-> e, name |-> name, raised |-> r.raised,
                       result |-> IF r.raised THEN r.message ELSE r.value]
    /\ UNCHANGED <<envs, scanner, tokens, scan_pc, main_vars, parse_vars>>

\* env.assign(name_token, value)
EnvAssign ==
    /\ \E e \in DOMAIN envs, name \in EnvNames, value \in EnvValues :
        LET r == assign(envs, e, name, value)
        IN  /\ envs' = r.H
            /\ env_op' = [op |-> "assign", env |-> e, name |-> name, value |-> value,
                          raised |-> r.raised,
                          result |-> IF r.raised THEN r.message ELSE None]
    /\ UNCHANGED <<scanner, tokens, scan_pc, main_vars, parse_vars>>

NextEnv == EnvNew \/ EnvDefine \/ EnvGet \/ EnvAssign

SpecEnv == InitEnv /\ [][NextEnv]_vars

\* The scopes of the chain that starts at e, as the set of pairs <<depth, scope>>.
RECURSIVE Chain(_, _, _)
Chain(H, e, depth) ==
    IF e = 0 THEN {} ELSE {<<depth, e>>} \cup Chain(H, H[e].parent, depth + 1)

\* The scopes of the chain from e that define name.
Defining(H, e, name) == {c \in Chain(H, e, 0) : name \in DOMAIN H[c[2]].values}

\* The nearest of them.
Nearest(H, e, name) ==
    (CHOOSE c \in Defining(H, e, name) : \A c2 \in Defining(H, e, name) : c[1] <= c2[1])[2]

\* Every binding of H2 other than (e, name) is the binding H has, and H2 has
\* the scopes and parents of H.
SameExcept(H, H2, e, name) ==
    /\ Len(H2) = Len(H)
    /\ \A x \in DOMAIN H :
        /\ H2[x].parent = H[x].parent
        /\ DOMAIN H2[x].values \ (IF x = e THEN {name} ELSE {}) =
           DOMAIN H[x].values \ (IF x = e THEN {name} ELSE {})
        /\ \A n \in DOMAIN H[x].values : (x # e \/ n # name) => H2[x].values[n] = H[x].values[n]

\* C8: defining a name in a scope makes a lookup through that scope return
\* the new value, changes no other binding of any scope, so a lookup through
\* the parent returns what it returned before; a redefinition replaces the
\* value silently; and a lookup raises "Undefined variable '<name>'." exactly
\* when no scope of the chain defines the name, else returns the nearest value.
C8_DefineShadows ==
    [][/\ env_op'.op = "define" =>
            LET e == env_op'.env
                n == env_op'.name
            IN  /\ SameExcept(envs, envs', e, n)
                /\ getitem(envs', e, n) = [raised |-> FALSE, value |-> env_op'.value, at |-> e]
                /\ envs[e].parent # 0 =>
                       getitem(envs', envs[e].parent, n) = getitem(envs, envs[e].parent, n)
       /\ env_op'.op = "get" =>
            LET e == env_op'.env
                n == env_op'.name
            IN  /\ envs' = envs
                /\ env_op'.raised <=> Defining(envs, e, n) = {}
                /\ env_op'.raised => env_op'.result = "Undefined variable '" \o n \o "'."
                /\ ~env_op'.raised => env_op'.result = envs[Nearest(envs, e, n)].values[n]]_vars

\* A name was defined in a child scope whose parent binds it to another value.
C8_Witness ==
    /\ env_op.op = "define"
    /\ envs[env_op.env].parent # 0
    /\ env_op.name \in DOMAIN envs[envs[env_op.env].parent].values
    /\ envs[envs[env_op.env].parent].values[env_op.name] # env_op.value

\* C9: assign sets the binding of the nearest scope of the chain that defines
\* the name and changes nothing else; it creates no binding; when no scope of
\* the chain defines the name it raises "Undefined variable '<name>'." and
\* changes nothing.
C9_AssignNearest ==
    [][env_op'.op = "assign" =>
            LET e == env_op'.env
                n == env_op'.name
            IN  IF Defining(envs, e, n) = {}
                THEN /\ env_op'.raised
                     /\ env_op'.result = "Undefined variable '" \o n \o "'."
                     /\ envs' = envs
                ELSE /\ ~env_op'.raised
                     /\ SameExcept(envs, envs', Nearest(envs, e, n), n)
                     /\ \A x \in DOMAIN envs : DOMAIN envs'[x].values = DOMAIN envs[x].values
                     /\ envs'[Nearest(envs, e, n)].values[n] = env_op'.value]_vars

\* An assignment through a child that does not define the name changed the
\* binding of its parent.
C9_Witness ==
    /\ env_op.op = "assign"
    /\ ~env_op.raised
    /\ envs[env_op.env].parent # 0
    /\ env_op.name \notin DOMAIN envs[env_op.env].values
    /\ envs[envs[env_op.env].parent].values[env_op.name] = env_op.value


(***************************************************************************)
(* The programs main() is run on, as the statement lists parse_stmt        *)
(* returns for them.  Every Variable and Assign node carries its identity. *)
(***************************************************************************)
MaxCalls == 2
MaxDepth == 2

S(x) == Literal(Str(x))
N(n) == Literal(Num(n))

\* name = name + 1; print name;
Bump(id, name) ==
    <<Expression(Assign(id, name, Binary(Variable(id + 1, name), "PLUS", N(1)))),
      PrintStmt(Variable(id + 2, name))>>

\* name(); k times
Calls(id, name, k) == [j \in 1..k |-> Expression(Call(Variable(id + j, name), <<>>))]

\* test_closure, with k calls of the counter
test_closure(k) ==
    <<Function("makeCounter", <<>>,
               <<Var("i", N(0)), Function("count", <<>>, Bump(1, "i")),
                 Return(Variable(4, "count"))>>),
      Var("counter", Call(Variable(5, "makeCounter"), <<>>))>>
    \o Calls(5, "counter", k)

\* var f; { var i = 0; fun count() { i = i + 1; print i; } f = count; } f(); ...
block_closure(k) ==
    <<Var("f", None),
      Block(<<Var("i", N(0)), Function("count", <<>>, Bump(1, "i")),
              Expression(Assign(4, "f", Variable(5, "count")))>>)>>
    \o Calls(5, "f", k)

\* The statement that holds `return "v";` under the given nesting, outermost
\* first.
RECURSIVE Nested(_)
Nested(kinds) ==
    IF kinds = <<>> THEN Return(S("v"))
    ELSE CASE Head(kinds) = "block" ->
                Block(<<Nested(Tail(kinds)), PrintStmt(S("unreachable"))>>)
           [] Head(kinds) = "if" -> If(Literal(Bool(TRUE)), Nested(Tail(kinds)), None)
           [] Head(kinds) = "while" -> While(Literal(Bool(TRUE)), Nested(Tail(kinds)))

Kinds == UNION {[1..n -> {"block", "if", "while"}] : n \in 0..MaxDepth}

\* test_return: fun f() { <nested return "v"> print "unreachable"; }
\* fun g() { var r = f(); print r; return; print "unreachable"; }
\* fun h() {}  print g(); print h(); print "end";
test_return(kinds) ==
    <<Function("f", <<>>, <<Nested(kinds), PrintStmt(S("unreachable"))>>),
      Function("g", <<>>, <<Var("r", Call(Variable(1, "f"), <<>>)), PrintStmt(Variable(2, "r")),
                            Return(None), PrintStmt(S("unreachable"))>>),
      Function("h", <<>>, <<>>),
      PrintStmt(Call(Variable(3, "g"), <<>>)),
      PrintStmt(Call(Variable(4, "h"), <<>>)),
      PrintStmt(S("end"))>>

\* fun f() { { return 1; } }  { print f(); }  { var a = 1; { print b; } }  print "never";
exit_paths ==
    <<Function("f", <<>>, <<Block(<<Return(N(1))>>)>>),
      Block(<<PrintStmt(Call(Variable(1, "f"), <<>>))>>),
      Block(<<Var("a", N(1)), Block(<<PrintStmt(Variable(2, "b"))>>)>>),
      PrintStmt(S("never"))>>

\* test_resolved_func_var, first program
resolved_func_var ==
    <<Var("variable", S("global")),
      Block(<<Function("f", <<>>, <<PrintStmt(Variable(1, "variable"))>>),
              Expression(Call(Variable(2, "f"), <<>>)),
              Var("variable", S("local")),
              Expression(Call(Variable(3, "f"), <<>>))>>)>>

\* test_resolved_func_var, second program
resolved_func_fun ==
    <<Function("global", <<>>, <<PrintStmt(S("global"))>>),
      Block(<<Function("f", <<>>, <<Expression(Call(Variable(1, "global"), <<>>))>>),
              Expression(Call(Variable(2, "f"), <<>>)),
              Function("global", <<>>, <<PrintStmt(S("local"))>>),
              Expression(Call(Variable(3, "f"), <<>>))>>)>>

\* test_resolved_closure_assign
resolved_closure_assign ==
    <<Var("count", N(0)),
      Block(<<Function("makeCounter", <<>>,
                       <<Function("counter", <<>>, Bump(1, "count")),
                         Return(Variable(4, "counter"))>>),
              Var("counter1", Call(Variable(5, "makeCounter"), <<>>)),
              Expression(Call(Variable(6, "counter1"), <<>>)),
              Expression(Call(Variable(7, "counter1"), <<>>)),
              Var("count", N(10)),
              Expression(Call(Variable(8, "counter1"), <<>>)),
              Expression(Call(Variable(9, "counter1"), <<>>)),
              PrintStmt(Variable(10, "count"))>>)>>

\* var a = "global";
\* { var c; { var a = "inner"; class C { m() { print a; } } c = C(); }
\*   c.m(); var a = "outer"; c.m(); }
method_var ==
    <<Var("a", S("global")),
      Block(<<Var("c", None),
              Block(<<Var("a", S("inner")),
                      Class("C", <<Function("m", <<>>, <<PrintStmt(Variable(1, "a"))>>)>>),
                      Expression(Assign(2, "c", Call(Variable(3, "C"), <<>>)))>>),
              Expression(Call(Get(Variable(4, "c"), "m"), <<>>)),
              Var("a", S("outer")),
              Expression(Call(Get(Variable(5, "c"), "m"), <<>>))>>)>>

\* test_var: print x; print 1;
undefined_then_print == <<PrintStmt(Variable(1, "x")), PrintStmt(N(1))>>

\* print 1; print 2; -nil; print 3;
print_then_error ==
    <<PrintStmt(N(1)), PrintStmt(N(2)), Expression(Unary("MINUS", Literal(Nil))),
      PrintStmt(N(3))>>

\* print "a"; { fun f() { print "b"; return nil + 1; } f(); print "c"; } print "d";
error_in_call ==
    <<PrintStmt(S("a")),
      Block(<<Function("f", <<>>, <<PrintStmt(S("b")),
                                    Return(Binary(Literal(Nil), "PLUS", N(1)))>>),
              Expression(Call(Variable(1, "f"), <<>>)),
              PrintStmt(S("c"))>>),
      PrintStmt(S("d"))>>

\* test_run: print 1 + 1;
print_sum == <<PrintStmt(Binary(N(1), "PLUS", N(1)))>>

\* print 1; return;
top_level_return == <<PrintStmt(N(1)), Return(None)>>

\* print 1; { var a = a; }
own_initializer == <<PrintStmt(N(1)), Block(<<Var("a", Variable(1, "a"))>>)>>


\* The callee and the arguments of the calls below print when evaluated:
\* fun g() { print "callee"; return <result>; }
\* fun a() { print "a"; return 1; }  fun b() { print "b"; return 2; }
Printing(result) ==
    <<Function("g", <<>>, <<PrintStmt(S("callee")), Return(result)>>),
      Function("a", <<>>, <<PrintStmt(S("a")), Return(N(1))>>),
      Function("b", <<>>, <<PrintStmt(S("b")), Return(N(2))>>)>>

\* g()(a(), b());
PrintingCall ==
    Expression(Call(Call(Variable(1, "g"), <<>>),
                    <<Call(Variable(2, "a"), <<>>), Call(Variable(3, "b"), <<>>)>>))

\* fun h(x) { print "body"; }
Body == Function("h", <<"x">>, <<PrintStmt(S("body"))>>)

\* g returns a string: the call is of a value that is not callable.
call_order_not_callable == Printing(S("text")) \o <<PrintingCall, PrintStmt(S("after"))>>

\* g returns h, which takes one parameter: the call has two arguments.
call_order_arity == <<Body>> \o Printing(Variable(4, "h")) \o <<PrintingCall, PrintStmt(S("after"))>>

\* g returns a function of two parameters: the call runs its body.
call_order_ok ==
    <<Function("h", <<"x", "y">>, <<PrintStmt(S("body"))>>)>>
    \o Printing(Variable(4, "h")) \o <<PrintingCall, PrintStmt(S("after"))>>

\* A call whose callee and arguments are a variable and literals:
\* <declared> name(1, ..., nargs); print "after";
SimpleCall(declared, name, nargs) ==
    <<declared, Expression(Call(Variable(1, name), [j \in 1..nargs |-> N(j)])),
      PrintStmt(S("after"))>>

MaxArgs == 2

\* The declarations called: a variable holding a string or nil, a function of
\* one parameter, the native clock, a class without methods, and test_init's
\* class A{ init(x) { } }.
Callees ==
    {[declaration |-> Var("v", S("text")), name |-> "v"],
     [declaration |-> Var("v", None), name |-> "v"],
     [declaration |-> Body, name |-> "h"],
     [declaration |-> Var("v", Variable(2, "clock")), name |-> "v"],
     [declaration |-> Class("A", <<>>), name |-> "A"],
     [declaration |-> Class("A", <<Function("init", <<"x">>, <<>>)>>), name |-> "A"]}

simple_calls == {SimpleCall(c.declaration, c.name, n) : c \in Callees, n \in 0..MaxArgs}

\* class C { m() { return this; } } print C().m();
method_this ==
    <<Class("C", <<Function("m", <<>>, <<Return(This(1))>>)>>),
      PrintStmt(Call(Get(Call(Variable(2, "C"), <<>>), "m"), <<>>))>>

\* test_logical: var x = 0; print <left> <operator> (x = <right>); print x;
logical(operator, left, right) ==
    <<Var("x", N(0)),
      PrintStmt(Logical(Literal(left), operator, Grouping(Assign(1, "x", Literal(right))))),
      PrintStmt(Variable(2, "x"))>>

LogicalLeft == {Nil, Bool(FALSE), Bool(TRUE), Num(0), Num(1), Str(""), Str("a")}
LogicalRight == {Nil, Bool(FALSE), Num(2)}

test_logical ==
    {logical(operator, left, right) :
        operator \in {"OR", "AND"}, left \in LogicalLeft, right \in LogicalRight}

\* test_set_order: class A {}  fun F() { print 1; return A(); }  fun G() { print 2; }
set_order_prelude ==
    <<Class("A", <<>>),
      Function("F", <<>>, <<PrintStmt(N(1)), Return(Call(Variable(1, "A"), <<>>))>>),
      Function("G", <<>>, <<PrintStmt(N(2))>>)>>

\* F().a = G();
set_order_instance ==
    set_order_prelude
    \o <<Expression(Set(Call(Variable(2, "F"), <<>>), "a", Call(Variable(3, "G"), <<>>)))>>

\* G().g = F();
set_order_not_instance ==
    set_order_prelude
    \o <<Expression(Set(Call(Variable(2, "G"), <<>>), "g", Call(Variable(3, "F"), <<>>)))>>

\* class A{} var x = 0; <object>.f = (x = 1);
set_on(object) ==
    <<Class("A", <<>>), Var("x", N(0)),
      Expression(Set(object, "f", Grouping(Assign(1, "x", N(1)))))>>

\* Values that are no instances: a class (test_class_fields: A.x = 1), nil, a
\* string, a number, a native function.
NotInstances == {Variable(2, "A"), Literal(Nil), S("text"), N(3), Variable(2, "clock")}

\* test_class_fields: class A{} var a = A(); print a.x = <value>; print a.x;
print_set(value) ==
    <<Class("A", <<>>), Var("a", Call(Variable(1, "A"), <<>>)),
      PrintStmt(Set(Variable(2, "a"), "x", Literal(value))),
      PrintStmt(Get(Variable(3, "a"), "x"))>>

FieldValues == {Num(1), Nil, Str("s"), Bool(FALSE)}

\* test_methods: class A{ hi() {} } var a = A(); a.hi = <value>; print a.hi;
get_field(value) ==
    <<Class("A", <<Function("hi", <<>>, <<>>)>>), Var("a", Call(Variable(1, "A"), <<>>)),
      Expression(Set(Variable(2, "a"), "hi", Literal(value))),
      PrintStmt(Get(Variable(3, "a"), "hi"))>>

\* test_methods: class A{ hi() {print 1;} } A().hi(); var h = A().hi; h();
get_method ==
    <<Class("A", <<Function("hi", <<>>, <<PrintStmt(N(1))>>)>>),
      Expression(Call(Get(Call(Variable(1, "A"), <<>>), "hi"), <<>>)),
      Var("h", Get(Call(Variable(2, "A"), <<>>), "hi")),
      Expression(Call(Variable(3, "h"), <<>>))>>

\* test_class_fields: class A{} var a = A(); a.<name>;
get_undefined(name) ==
    <<Class("A", <<>>), Var("a", Call(Variable(1, "A"), <<>>)),
      Expression(Get(Variable(2, "a"), name))>>

PropertyNames == {"y", "hi", "name"}

\* class A{ hi() {} } var a = A(); var b = A(); a.hi = 3; a.x = 1;
\* print b.hi; b.x;
two_instances ==
    <<Class("A", <<Function("hi", <<>>, <<>>)>>),
      Var("a", Call(Variable(1, "A"), <<>>)), Var("b", Call(Variable(2, "A"), <<>>)),
      Expression(Set(Variable(3, "a"), "hi", N(3))),
      Expression(Set(Variable(4, "a"), "x", N(1))),
      PrintStmt(Get(Variable(5, "b"), "hi")),
      Expression(Get(Variable(6, "b"), "x"))>>

\* test_this_detached:
\* class C { f() { return this.x; } }  var c = C();  var f = c.f;  c.x = 4;
\* print f();  var c2 = C();  c2.f = f;  print c2.f();
test_this_detached ==
    <<Class("C", <<Function("f", <<>>, <<Return(Get(This(1), "x"))>>)>>),
      Var("c", Call(Variable(2, "C"), <<>>)),
      Var("f", Get(Variable(3, "c"), "f")),
      Expression(Set(Variable(4, "c"), "x", N(4))),
      PrintStmt(Call(Variable(5, "f"), <<>>)),
      Var("c2", Call(Variable(6, "C"), <<>>)),
      Expression(Set(Variable(7, "c2"), "f", Variable(8, "f"))),
      PrintStmt(Call(Get(Variable(9, "c2"), "f"), <<>>))>>

\* test_init: class A{ init() { print 1; } } A();
init_print ==
    <<Class("A", <<Function("init", <<>>, <<PrintStmt(N(1))>>)>>),
      Expression(Call(Variable(1, "A"), <<>>))>>

\* test_init: class A{ init() { this.x = 1; } } print A().x;
init_field ==
    <<Class("A", <<Function("init", <<>>, <<Expression(Set(This(1), "x", N(1)))>>)>>),
      PrintStmt(Get(Call(Variable(2, "A"), <<>>), "x"))>>

\* test_init_returns: class A{ init() <body> } print A().init();
init_returns(body) ==
    <<Class("A", <<Function("init", <<>>, body)>>),
      PrintStmt(Call(Get(Call(Variable(1, "A"), <<>>), "init"), <<>>))>>

\* The bodies of test_init_returns: {} and { return; }
InitBodies == {<<>>, <<Return(None)>>}

MaxIterations == 2

\* test_while / test_for_caramelization: a loop over i = 0, 1, ..., k - 1 as
\* for_statement desugars it, each of the three clauses present or omitted:
\*   var i = <"g" or 0>;
\*   for ([var i = 0]; [i < k]; [i = i + 1]) { [if (i == k) -"stop";] print i; [i = i + 1;] }
\*   print i;
\* A loop without initializer counts in the global i; a loop without
\* condition is ended by the runtime error of -"stop"; a loop without
\* increment counts in its body.
for_body(k, has_condition, has_increment) ==
    LET stop == If(Binary(Variable(11, "i"), "EQUAL_EQUAL", N(k)),
                   Expression(Unary("MINUS", S("stop"))), None)
        count == Expression(Assign(12, "i", Binary(Variable(13, "i"), "PLUS", N(1))))
    IN  IF has_condition /\ has_increment THEN PrintStmt(Variable(14, "i"))
        ELSE Block((IF has_condition THEN <<>> ELSE <<stop>>)
                   \o <<PrintStmt(Variable(14, "i"))>>
                   \o (IF has_increment THEN <<>> ELSE <<count>>))

for_program(k, has_initializer, has_condition, has_increment) ==
    <<Var("i", IF has_initializer THEN S("g") ELSE N(0)),
      for_loop(IF has_initializer THEN Var("i", N(0)) ELSE None,
               IF has_condition THEN Binary(Variable(1, "i"), "LESS", N(k)) ELSE None,
               IF has_increment
               THEN Assign(2, "i", Binary(Variable(3, "i"), "PLUS", N(1))) ELSE None,
               for_body(k, has_condition, has_increment)),
      PrintStmt(Variable(4, "i"))>>

\* `var x = <initializer>;` and what follows it.  Initializers: the
\* initializer expressions, each with the number of Variable nodes named x in
\* it.  place: where the declaration stands; outer: where another x is
\* declared before it ("enclosing": in the block around the place).
Initializers ==
    <<[e |-> Variable(1, "x"), reads |-> 1],
      [e |-> Grouping(Variable(1, "x")), reads |-> 1],
      [e |-> Binary(Variable(1, "x"), "PLUS", Variable(2, "x")), reads |-> 2],
      [e |-> Unary("MINUS", Variable(1, "x")), reads |-> 1],
      [e |-> Call(Variable(1, "clock"), <<Variable(2, "x")>>), reads |-> 1],
      [e |-> Variable(1, "y"), reads |-> 0],
      [e |-> Assign(1, "x", N(1)), reads |-> 0],
      [e |-> N(1), reads |-> 0],
      [e |-> None, reads |-> 0]>>

Places == {"global", "block", "function", "function_block"}
Outers == {"none", "global", "enclosing"}

own_init_placed(place, declarations) ==
    CASE place = "global" -> declarations
      [] place = "block" -> <<Block(declarations)>>
      [] place = "function" ->
            <<Function("f", <<"y">>, declarations),
              Expression(Call(Variable(8, "f"), <<N(2)>>))>>
      [] place = "function_block" ->
            <<Function("f", <<"y">>, <<Block(declarations)>>),
              Expression(Call(Variable(8, "f"), <<N(2)>>))>>

own_init_program(place, outer, i) ==
    LET declarations == <<Var("x", Initializers[i].e), PrintStmt(Variable(9, "x"))>>
        placed == own_init_placed(place, declarations)
    IN  CASE outer = "none" -> placed
          [] outer = "global" -> <<Var("x", N(23))>> \o placed
          [] outer = "enclosing" -> <<Block(<<Var("x", N(23))>> \o placed)>>

own_init_programs ==
    {own_init_program(place, outer, i) :
        place \in Places, outer \in Outers, i \in DOMAIN Initializers}

\* Two declarations of x.  first, second: what declares it ("param": a
\* parameter of f, the second declaration then standing in the body of f, or
\* being its second parameter); relation: the second in the scope of the first
\* or in a scope nested in it; place: where the whole stands.
Declarers == {"var", "fun", "class", "param"}
Relations == {"same", "nested"}
Redeclarations ==
    {d \in [first : Declarers, second : Declarers, relation : Relations] :
        /\ d.second = "param" /\ d.first # "param" => d.relation = "nested"
        /\ d.second = "param" /\ d.first = "param" => d.relation = "same"}

declarer(kind) ==
    CASE kind = "var" -> Var("x", N(1))
      [] kind = "fun" -> Function("x", <<>>, <<>>)
      [] kind = "class" -> Class("x", <<>>)

redeclare_body(d) ==
    LET second == IF d.relation = "same" THEN <<declarer(d.second)>>
                  ELSE <<Block(<<declarer(d.second)>>)>>
    IN  CASE d.first = "param" /\ d.second = "param" -> <<Function("f", <<"x", "x">>, <<>>)>>
          [] d.first = "param" -> <<Function("f", <<"x">>, second)>>
          [] d.second = "param" -> <<declarer(d.first), Function("f", <<"x">>, <<>>)>>
          [] OTHER -> <<declarer(d.first)>> \o second

redeclare_program(place, d) ==
    CASE place = "global" -> redeclare_body(d)
      [] place = "block" -> <<Block(redeclare_body(d))>>
      [] place = "function" -> <<Function("g", <<>>, redeclare_body(d))>>
      [] place = "function_block" -> <<Function("g", <<>>, <<Block(redeclare_body(d))>>)>>

redeclare_programs == {redeclare_program(place, d) : place \in Places, d \in Redeclarations}

\* Two return statements, each at a place of ReturnPlaces ("none": left
\* out), the second followed by a `this` outside of a class when `more`.
\* InFunction: the places within a function or method body.
ReturnValues == {None, N(1)}
InFunction ==
    {"function", "method", "function_block", "function_if", "function_while", "block_function"}
ReturnPlaces == {"top", "block", "if", "else", "while", "block_while", "none"} \cup InFunction

return_at(place, name, value) ==
    LET ret == Return(value)
    IN  CASE place = "none" -> <<>>
          [] place = "top" -> <<ret>>
          [] place = "block" -> <<Block(<<ret>>)>>
          [] place = "if" -> <<If(Literal(Bool(FALSE)), ret, None)>>
          [] place = "else" -> <<If(Literal(Bool(TRUE)), PrintStmt(N(2)), ret)>>
          [] place = "while" -> <<While(Literal(Bool(FALSE)), ret)>>
          [] place = "block_while" -> <<Block(<<While(Literal(Bool(FALSE)), Block(<<ret>>))>>)>>
          [] place = "function" -> <<Function(name, <<>>, <<ret>>)>>
          [] place = "method" -> <<Class(name, <<Function("m", <<>>, <<ret>>)>>)>>
          [] place = "function_block" -> <<Function(name, <<>>, <<Block(<<ret>>)>>)>>
          [] place = "function_if" ->
                <<Function(name, <<>>, <<If(Literal(Bool(TRUE)), ret, None)>>)>>
          [] place = "function_while" ->
                <<Function(name, <<>>, <<While(Literal(Bool(TRUE)), ret)>>)>>
          [] place = "block_function" -> <<Block(<<Function(name, <<>>, <<ret>>)>>)>>

return_program(first, second, value, more) ==
    <<PrintStmt(N(1))>> \o return_at(first, "f", value) \o return_at(second, "g", value)
    \o (IF more THEN <<PrintStmt(This(1))>> ELSE <<>>)

return_programs ==
    {return_program(first, second, value, more) :
        first \in ReturnPlaces, second \in ReturnPlaces, value \in ReturnValues,
        more \in BOOLEAN}

\* class A { <first>() { print m; } <second>() {} } at global scope, or in a
\* block after `var m = 1;`.
MethodNames == {"m", "n"}

class_scope_program(place, first, second) ==
    LET class == Class("A", <<Function(first, <<>>, <<PrintStmt(Variable(1, "m"))>>),
                              Function(second, <<>>, <<>>)>>)
    IN  IF place = "global" THEN <<class>>
        ELSE <<Block(<<Var("m", N(1)), class>>)>>

class_scope_programs ==
    {class_scope_program(place, first, second) :
        place \in {"global", "block"}, first \in MethodNames, second \in MethodNames}

\* class A {} var a = A(); var b = A(); <fields>
\* print a == a; print a == b; print a != b; print a != a;
FieldShapes == {"none", "equal", "different", "self", "self_one", "cross"}

set_field(object, id, name, value) == Expression(Set(Variable(id, object), name, value))

shape_fields(shape) ==
    CASE shape = "none" -> <<>>
      [] shape = "equal" -> <<set_field("a", 3, "x", N(1)), set_field("b", 4, "x", N(1))>>
      [] shape = "different" -> <<set_field("a", 3, "x", N(1)), set_field("b", 4, "x", N(2))>>
      [] shape = "self" ->
            <<set_field("a", 3, "me", Variable(5, "a")), set_field("b", 4, "me", Variable(6, "b"))>>
      [] shape = "self_one" -> <<set_field("a", 3, "me", Variable(5, "a"))>>
      [] shape = "cross" ->
            <<set_field("a", 3, "o", Variable(5, "b")), set_field("b", 4, "o", Variable(6, "a"))>>

equality_program(shape) ==
    <<Class("A", <<>>),
      Var("a", Call(Variable(1, "A"), <<>>)), Var("b", Call(Variable(2, "A"), <<>>))>>
    \o shape_fields(shape)
    \o <<PrintStmt(Binary(Variable(7, "a"), "EQUAL_EQUAL", Variable(8, "a"))),
          PrintStmt(Binary(Variable(9, "a"), "EQUAL_EQUAL", Variable(10, "b"))),
          PrintStmt(Binary(Variable(11, "a"), "BANG_EQUAL", Variable(12, "b"))),
          PrintStmt(Binary(Variable(13, "a"), "BANG_EQUAL", Variable(14, "a")))>>

equality_programs == {equality_program(shape) : shape \in FieldShapes}

for_programs ==
    {for_program(k, has_initializer, has_condition, has_increment) :
        k \in 0..MaxIterations, has_initializer \in BOOLEAN, has_condition \in BOOLEAN,
        has_increment \in BOOLEAN}

Programs ==
    {test_closure(k) : k \in 1..MaxCalls} \cup {block_closure(k) : k \in 1..MaxCalls}
    \cup {test_return(kinds) : kinds \in Kinds}
    \cup {exit_paths, resolved_func_var, resolved_func_fun, resolved_closure_assign,
          method_var, undefined_then_print, print_then_error, error_in_call, print_sum,
          top_level_return, own_initializer, call_order_not_callable, call_order_arity,
          call_order_ok, method_this, <<>>}
    \cup for_programs \cup own_init_programs \cup redeclare_programs
    \cup return_programs \cup class_scope_programs \cup equality_programs
    \cup simple_calls \cup test_logical
    \cup {set_order_instance, set_order_not_instance}
    \cup {print_set(value) : value \in FieldValues}
    \cup {get_field(value) : value \in FieldValues}
    \cup {get_undefined(name) : name \in PropertyNames}
    \cup {get_method, two_instances}
    \cup {test_this_detached, init_print, init_field}
    \cup {init_returns(body) : body \in InitBodies}
    \cup {set_on(object) : object \in NotInstances \cup {Call(Variable(2, "A"), <<>>)}}


(***************************************************************************)
(* Spec: main(source) of app/main.py under the command `run`.  The source  *)
(* is scanned by scan_tokens; what parse_stmt makes of the tokens is an    *)
(* input of the ParseStatement step: a statement list of Programs without  *)
(* a report, or one of ParseErrors.  The stages:                           *)
(*   "tokenize" -> "parse_statement" -> "resolver" -> "interpret"          *)
(*   -> "run" (the end of `with step("run")`) -> "exit"                    *)
(***************************************************************************)
LEXICAL_ERROR_CODE == 65
RUNTIME_ERROR_CODE == 70

command == "run"

\* The exit status of a process that main() left through an exception other
\* than SystemExit.
UNCAUGHT == 1

\* step that reports every error with the code of the lexical stage.
step_lexical(stage, code, errors) ==
    IF errors THEN [exit |-> TRUE, status |-> LEXICAL_ERROR_CODE]
    ELSE IF stage = command THEN [exit |-> TRUE, status |-> 0]
    ELSE [exit |-> FALSE]

\* step, after the `yield`: sys.exit with a status, or the end of the `with`
\* block is passed.
step(stage, code, errors) ==
    IF errors THEN [exit |-> TRUE, status |-> code]
    ELSE IF stage = command THEN [exit |-> TRUE, status |-> 0]
    ELSE [exit |-> FALSE]

\* interpret with the try inside the loop: the error is reported and the next
\* statement runs.
interpret_on(I, st) ==
    Value({[I |-> r.I, left |-> IF r.st = "LoxRuntimeError" THEN "ok" ELSE r.st,
            runtime_error |-> IF r.st = "LoxRuntimeError" THEN <<r.v>> ELSE <<>>]
           : r \in {execute(I, st)}})

\* One pass of the loop of Interpreter.interpret, within its try: what left
\* the statement ("ok": the loop goes on; "LoxRuntimeError": caught, interpret
\* returns; else the exception leaves interpret) and what runtime_error got.
interpret(I, st) ==
    Value({[I |-> r.I, left |-> r.st,
            runtime_error |-> IF r.st = "LoxRuntimeError" THEN <<r.v>> ELSE <<>>]
           : r \in {execute(I, st)}})

MainSources ==
    {<<>>, <<"1">>, <<"a", "=", "1">>, <<"$">>, <<"\"", "a">>, <<"1", "\n", "$">>,
     <<"$", "²">>}

ParseErrors ==
    {[stmt |-> <<>>, errors |-> <<"Expect expression.">>],
     [stmt |-> print_sum, errors |-> <<"Expect ';' after value.">>],
     [stmt |-> <<>>, errors |-> <<"Expect expression.", "Expect '}' after block.">>]}

Parses == {[stmt |-> p, errors |-> <<>>] : p \in Programs} \cup ParseErrors

Printed(by, messages) == [i \in 1..Len(messages) |-> [by |-> by, message |-> messages[i]]]

Init ==
    /\ \E source \in MainSources, compat \in BOOLEAN : scanner = Scanner(source, compat)
    /\ tokens = <<>>
    /\ pc = "tokenize"
    /\ stmt = <<>>
    /\ interpreter = None
    /\ ip = 0
    /\ had_error = FALSE
    /\ stderr = <<>>
    /\ exit_code = None
    /\ scan_pc = Idle /\ envs = Idle /\ env_op = Idle
    /\ ParseIdle

\* What a step decided: the process exits with its status, or main goes on
\* to the stage `next`.
Exit(decision, next) ==
    /\ exit_code' = IF decision.exit THEN decision.status ELSE exit_code
    /\ pc' = IF decision.exit THEN "exit" ELSE next

\* scanner.scan_tokens() and `with step("tokenize")`; an exception raised by
\* scan_tokens leaves main.
Tokenize ==
    /\ pc = "tokenize"
    /\ LET r == scan_tokens(scanner, <<>>)
           reported == [i \in 1..Len(r.s.errors) |-> r.s.errors[i].message]
       IN  /\ scanner' = r.s
           /\ tokens' = r.tokens
           /\ stderr' = stderr \o Printed("report", reported)
           /\ had_error' = (had_error \/ reported # <<>>)
           /\ IF r.raised THEN pc' = "exit" /\ exit_code' = UNCAUGHT
              ELSE Exit(step("tokenize", LEXICAL_ERROR_CODE, had_error'), "parse_statement")
    /\ UNCHANGED <<stmt, interpreter, ip, scan_pc, envs, env_op, parse_vars>>

\* `with step("parse_statement")`: parser.parse_stmt()
ParseStatement ==
    /\ pc = "parse_statement"
    /\ \E p \in Parses :
          /\ stmt' = p.stmt
          /\ stderr' = stderr \o Printed("compile_error", p.errors)
          /\ had_error' = (had_error \/ p.errors # <<>>)
          /\ Exit(step("parse_statement", LEXICAL_ERROR_CODE, had_error'), "resolver")
    /\ UNCHANGED <<scanner, tokens, interpreter, ip, scan_pc, envs, env_op, parse_vars>>

\* The start of `with step("run", RUNTIME_ERROR_CODE)`: the Interpreter is made
\* and `with step("resolver")` runs static_analysis.
Resolve ==
    /\ pc = "resolver"
    /\ LET a == static_analysis(stmt)
           reported == [i \in 1..Len(a.errors) |-> a.errors[i].message]
       IN  /\ interpreter' = [Interpreter EXCEPT !.locals = a.locals]
           /\ stderr' = stderr \o Printed("compile_error", reported)
           /\ had_error' = (had_error \/ reported # <<>>)
           /\ Exit(step("resolver", LEXICAL_ERROR_CODE, had_error'), "interpret")
    /\ ip' = 1
    /\ UNCHANGED <<scanner, tokens, stmt, scan_pc, envs, env_op, parse_vars>>

\* interpreter.interpret(stmt): one statement of the loop.  A runtime error is
\* handed to runtime_error and interpret returns; any other exception leaves
\* main.
Interpret ==
    /\ pc = "interpret"
    /\ ip <= Len(stmt)
    /\ LET r == interpret(interpreter, stmt[ip])
       IN  /\ interpreter' = r.I
           /\ stderr' = stderr \o Printed("runtime_error", r.runtime_error)
           /\ had_error' = (had_error \/ r.runtime_error # <<>>)
           /\ ip' = IF r.left = "ok" THEN ip + 1 ELSE ip
           /\ pc' = CASE r.left = "ok" -> "interpret"
                      [] r.left = "LoxRuntimeError" -> "run"
                      [] OTHER -> "exit"
           /\ exit_code' = IF r.left \in {"ok", "LoxRuntimeError"} THEN exit_code
                           ELSE UNCAUGHT
    /\ UNCHANGED <<scanner, tokens, stmt, scan_pc, envs, env_op, parse_vars>>

\* The loop of interpret is over: interpret returns.
InterpretReturn ==
    /\ pc = "interpret"
    /\ ip > Len(stmt)
    /\ pc' = "run"
    /\ UNCHANGED <<scanner, tokens, stmt, interpreter, ip, had_error, stderr, exit_code,
                   scan_pc, envs, env_op, parse_vars>>

\* The end of `with step("run", RUNTIME_ERROR_CODE)`.
StepRun ==
    /\ pc = "run"
    /\ Exit(step("run", RUNTIME_ERROR_CODE, had_error), "unknown command")
    /\ UNCHANGED <<scanner, tokens, stmt, interpreter, ip, had_error, stderr,
                   scan_pc, envs, env_op, parse_vars>>

Next == Tokenize \/ ParseStatement \/ Resolve \/ Interpret \/ InterpretReturn \/ StepRun

Spec == Init /\ [][Next]_vars


(***************************************************************************)
(* Properties of Spec.                                                     *)
(***************************************************************************)
IsPrefix(a, b) == Len(a) <= Len(b) /\ SubSeq(b, 1, Len(a)) = a

\* The lines "1", "2", ..., "n"
Counting(n) == [j \in 1..n |-> ToString(j)]

CompileErrorReported == \E i \in DOMAIN stderr : stderr[i].by \in {"report", "compile_error"}
RuntimeErrorReported == \E i \in DOMAIN stderr : stderr[i].by = "runtime_error"

\* C2: every execute_block that was left, by normal completion, by a
\* LoxRuntimeError or by a ReturnUnwind, left the interpreter in the
\* environment it was entered from; so between the statements of interpret
\* and after interpret the current environment is the global one.
C2_BlockRestoresEnvironment ==
    interpreter # None =>
        /\ interpreter.environment = 1
        /\ \A i \in DOMAIN interpreter.blocks :
              interpreter.blocks[i].after = interpreter.blocks[i].orig

\* C2: interpret has returned after blocks were left on each of the three paths.
C2_Witness ==
    /\ pc = "run"
    /\ stmt = exit_paths
    /\ interpreter.environment = 1
    /\ \A exit \in {"ok", "LoxRuntimeError", "ReturnUnwind"} :
          \E i \in DOMAIN interpreter.blocks :
              /\ interpreter.blocks[i].exit = exit
              /\ interpreter.blocks[i].env # interpreter.blocks[i].orig

C4_ClosureKeepsEnvironment ==
    \A k \in 1..MaxCalls :
        (stmt \in {test_closure(k), block_closure(k)} /\ interpreter # None) =>
            /\ interpreter.out = Counting(Len(interpreter.out))
            /\ \A x, y \in interpreter.binds :
                  (x.node \in {1, 2, 3} /\ y.node \in {1, 2, 3}) =>
                      x.at = y.at /\ x.at < x.env /\ x.at # 1
            /\ pc = "exit" =>
                  interpreter.out = Counting(k) /\ exit_code = 0 /\ stderr = <<>>

\* C4: the run of test_closure with MaxCalls calls has ended.
C4_Witness ==
    /\ pc = "exit"
    /\ stmt = test_closure(MaxCalls)
    /\ interpreter.out = Counting(MaxCalls)
    /\ Cardinality({x.env : x \in interpreter.binds}) > 1

\* C5: every ReturnUnwind raised was caught by the call that was innermost
\* when it was raised, and that call gave the returned value; in test_return,
\* with the return under any nesting of blocks, ifs and whiles, the callers
\* went on ("v", then nil for the bare return and for the body without a
\* return, then "end"), nothing after a return ran, and runtime_error was not
\* called.
C5_ReturnEndsInnermostCall ==
    /\ interpreter # None =>
          LET caught == SelectSeq(interpreter.calls, LAMBDA c : c.exit = "ReturnUnwind")
          IN  /\ Len(caught) = Len(interpreter.returns)
              /\ \A i \in DOMAIN caught :
                    /\ caught[i].env = interpreter.returns[i].env
                    /\ caught[i].v = interpreter.returns[i].v
    /\ \A kinds \in Kinds :
          stmt = test_return(kinds) =>
              /\ stderr = <<>>
              /\ interpreter # None =>
                    IsPrefix(interpreter.out, <<"v", "nil", "nil", "end">>)
              /\ pc = "exit" =>
                    interpreter.out = <<"v", "nil", "nil", "end">> /\ exit_code = 0

\* C5: test_return with the return MaxDepth levels deep has run to its end.
C5_Witness ==
    /\ pc = "exit"
    /\ \E kinds \in Kinds : Len(kinds) = MaxDepth /\ stmt = test_return(kinds)
    /\ interpreter.out = <<"v", "nil", "nil", "end">>
    /\ Len(interpreter.returns) = 2

\* C6: when the statement interpret is at raises a LoxRuntimeError, that step
\* calls runtime_error once, keeps what was printed before, and interpret
\* returns; once runtime_error has been called, the interpreter does nothing
\* more and runtime_error is not called again.
C6_RuntimeErrorEndsInterpret ==
    [][/\ (/\ pc = "interpret" /\ ip <= Len(stmt)
           /\ execute(interpreter, stmt[ip]).st = "LoxRuntimeError")
          => /\ Len(stderr') = Len(stderr) + 1
             /\ stderr'[Len(stderr')].by = "runtime_error"
             /\ IsPrefix(interpreter.out, interpreter'.out)
             /\ pc' = "run"
       /\ RuntimeErrorReported => (interpreter' = interpreter /\ stderr' = stderr)
       /\ (~RuntimeErrorReported /\ RuntimeErrorReported')
          => (pc = "interpret" /\ execute(interpreter, stmt[ip]).st = "LoxRuntimeError")
      ]_vars

\* C6: interpret returned after an error inside a call inside a block; the
\* lines printed before the error are there, the later ones are not.
C6_Witness ==
    /\ pc = "run"
    /\ stmt = error_in_call
    /\ interpreter.out = <<"a", "b">>
    /\ stderr = <<[by |-> "runtime_error",
                   message |-> "Operands must be two numbers or two strings."]>>
    /\ ip = 2

\* C7: the process exits with 65 when a lex, parse or resolve error was
\* reported, and then the interpreter has executed nothing; with 70 when no
\* compile error but a runtime error was reported; with 0 otherwise.
C7_ExitCodes ==
    pc = "exit" =>
        /\ exit_code = IF CompileErrorReported THEN LEXICAL_ERROR_CODE
                       ELSE IF RuntimeErrorReported THEN RUNTIME_ERROR_CODE
                       ELSE 0
        /\ CompileErrorReported =>
              /\ ~RuntimeErrorReported
              /\ interpreter # None =>
                    [interpreter EXCEPT !.locals = <<>>] = Interpreter

\* What the calls of SimpleCall are to give by the rule of C10: whether the
\* declared value is callable, and its arity (of a class: the parameter count
\* of its init, 0 without one).
DeclaredCallable(declared) ==
    \/ declared.type \in {"Function", "Class"}
    \/ (declared.initializer # None /\ declared.initializer.type = "Variable")
DeclaredArity(declared) ==
    CASE declared.type = "Function" -> Len(declared.params)
      [] declared.type = "Class" ->
            IF \E i \in DOMAIN declared.methods : declared.methods[i].name = "init"
            THEN Len(declared.methods[CHOOSE i \in DOMAIN declared.methods :
                                            declared.methods[i].name = "init"].params)
            ELSE 0
      [] OTHER -> 0

RuntimeError(message) == <<[by |-> "runtime_error", message |-> message]>>

\* C10: the callee and then the arguments are evaluated left to right before
\* the checks ("callee", "a", "b" are printed, then the error is reported);
\* a call of a value that is not callable reports "Can only call functions
\* and classes.", a call with n arguments of a callee of another arity N
\* reports "Expected N arguments but got n.", and in both cases no body has
\* printed and no environment or instance has been created.
C10_CallChecks ==
    /\ (stmt \in {call_order_not_callable, call_order_arity} /\ pc \in {"run", "exit"}) =>
          /\ interpreter.out = <<"callee", "a", "b">>
          /\ Len(interpreter.envs) = 4
          /\ stderr = RuntimeError(IF stmt = call_order_not_callable
                                   THEN "Can only call functions and classes."
                                   ELSE "Expected 1 arguments but got 2.")
    /\ \A c \in Callees, n \in 0..MaxArgs :
          (/\ stmt = SimpleCall(c.declaration, c.name, n)
           /\ pc \in {"run", "exit"}
           /\ (~DeclaredCallable(c.declaration) \/ n # DeclaredArity(c.declaration)))
          => /\ stderr = RuntimeError(
                    IF ~DeclaredCallable(c.declaration)
                    THEN "Can only call functions and classes."
                    ELSE "Expected " \o ToString(DeclaredArity(c.declaration)) \o
                         " arguments but got " \o ToString(n) \o ".")
             /\ interpreter.out = <<>>
             /\ Len(interpreter.envs) = 1
             /\ interpreter.instances = <<>>

\* C11: in `left or right` the right operand is evaluated only when left is
\* falsey, in `left and right` only when left is truthy, nil and false being
\* the only falsey values; the expression gives the deciding operand itself,
\* and the assignment in a skipped right operand has not happened.
C11_LogicalShortCircuit ==
    \A operator \in {"OR", "AND"}, left \in LogicalLeft, right \in LogicalRight :
        (stmt = logical(operator, left, right) /\ pc = "exit") =>
            LET falsey == left \in {Nil, Bool(FALSE)}
                skipped == IF operator = "OR" THEN ~falsey ELSE falsey
            IN  /\ interpreter.out =
                      IF skipped
                      THEN <<stringify(interpreter, left), "0">>
                      ELSE <<stringify(interpreter, right), stringify(interpreter, right)>>
                /\ exit_code = 0

\* C11: `0 or (x = 2)` has ended: 0 is truthy, it was the result, and x is
\* still 0.
C11_Witness ==
    /\ pc = "exit"
    /\ stmt = logical("OR", Num(0), Num(2))
    /\ interpreter.out = <<"0", "0">>

\* C12: in `object.name = value` the object is evaluated first; when it is no
\* instance, "Only instances have fields." is raised and the value expression
\* has not been evaluated (nothing it prints is printed, the variable it
\* assigns is unchanged, the instance it creates does not exist); when it is
\* an instance the value is evaluated next and stored in its fields.
C12_SetOrder ==
    /\ (stmt = set_order_instance /\ pc \in {"run", "exit"}) =>
          /\ interpreter.out = <<"1", "2">>
          /\ stderr = <<>>
          /\ Len(interpreter.instances) = 1
          /\ interpreter.instances[1].fields = ("a" :> Nil)
    /\ (stmt = set_order_not_instance /\ pc \in {"run", "exit"}) =>
          /\ interpreter.out = <<"2">>
          /\ stderr = RuntimeError("Only instances have fields.")
          /\ interpreter.instances = <<>>
    /\ \A object \in NotInstances :
          (stmt = set_on(object) /\ pc \in {"run", "exit"}) =>
              /\ stderr = RuntimeError("Only instances have fields.")
              /\ interpreter.envs[1].values["x"] = Num(0)
    /\ (stmt = set_on(Call(Variable(2, "A"), <<>>)) /\ pc \in {"run", "exit"}) =>
          /\ stderr = <<>>
          /\ interpreter.envs[1].values["x"] = Num(1)
          /\ interpreter.instances[1].fields = ("f" :> Num(1))

\* C12: `G().g = F();` has ended with the error: G printed, F did not.
C12_Witness ==
    /\ pc = "exit"
    /\ stmt = set_order_not_instance
    /\ interpreter.out = <<"2">>
    /\ stderr = RuntimeError("Only instances have fields.")
    /\ exit_code = RUNTIME_ERROR_CODE

\* C13: a property assignment gives the value that was assigned, the value a
\* later read of the field gives, nil included: `print a.x = v; print a.x;`
\* prints v twice.
C13_SetGivesValue ==
    \A value \in FieldValues :
        (stmt = print_set(value) /\ pc = "exit") =>
            /\ interpreter.out = <<stringify(interpreter, value), stringify(interpreter, value)>>
            /\ exit_code = 0

\* C14: a read of a property gives the field of that name when the instance
\* has one (a nil field and a field named like a method included), else the
\* method of that name of the class, else the runtime error "Undefined
\* property '<name>'."; a write of a field leaves the methods of the class and
\* the fields of the other instances as they were.
C14_PropertyLookup ==
    /\ \A value \in FieldValues :
          (stmt = get_field(value) /\ pc = "exit") =>
              interpreter.out = <<stringify(interpreter, value)>> /\ exit_code = 0
    /\ (stmt = get_method /\ pc = "exit") =>
          interpreter.out = <<"1", "1">> /\ exit_code = 0
    /\ \A name \in PropertyNames :
          (stmt = get_undefined(name) /\ pc \in {"run", "exit"}) =>
              stderr = RuntimeError("Undefined property '" \o name \o "'.")
    /\ (stmt = two_instances /\ pc \in {"run", "exit"}) =>
          /\ interpreter.out = <<"<fn hi>">>
          /\ stderr = RuntimeError("Undefined property 'x'.")
          /\ interpreter.instances[1].fields = ("hi" :> Num(3)) @@ ("x" :> Num(1))
          /\ DOMAIN interpreter.instances[2].fields = {}
          /\ interpreter.envs[1].values["A"].attrs["hi"].t = "fun"

\* C15: a method read from an instance keeps `this` bound to that instance
\* where it is stored or called later: in test_this the call of the method
\* gives the instance, and in test_this_detached the method read from c, called
\* as the variable f and as the field f of another instance c2, gives the
\* field x that was written to c after the read (4 both times).
C15_MethodKeepsThis ==
    /\ (stmt = method_this /\ pc = "exit") =>
          interpreter.out = <<"C instance">> /\ exit_code = 0
    /\ (stmt = test_this_detached /\ pc = "exit") =>
          interpreter.out = <<"4", "4">> /\ exit_code = 0

\* C16: a call of a class with an init makes a new instance, runs init on it
\* with the arguments of the call and gives the instance; init called on an
\* instance gives that instance, whether its body ends normally or with a
\* bare return.
C16_InitGivesInstance ==
    /\ (stmt = init_print /\ pc = "exit") =>
          /\ interpreter.out = <<"1">>
          /\ Len(interpreter.instances) = 1
          /\ exit_code = 0
    /\ (stmt = init_field /\ pc = "exit") =>
          interpreter.out = <<"1">> /\ exit_code = 0
    /\ \A body \in InitBodies :
          (stmt = init_returns(body) /\ pc = "exit") =>
              /\ interpreter.out = <<"A instance">>
              /\ Len(interpreter.instances) = 1
              /\ exit_code = 0

\* C22: the loop that for_statement makes of `for (init; cond; incr) body` is
\* While(cond', body'), body' being Block[body, Expression(incr)] with an
\* increment and body without, cond' being Literal(true) without a condition,
\* and it is Block[init, While] exactly when there is an initializer.  Run, a
\* loop counting i from 0 while i < k prints 0 .. k - 1: the increment runs
\* after the body and before the next test.  After a loop with initializer
\* `var i` the name i is the outer variable again; without initializer the
\* loop has counted in the outer one.
C22_ForIsWhile ==
    \A k \in 0..MaxIterations, has_initializer \in BOOLEAN, has_condition \in BOOLEAN,
       has_increment \in BOOLEAN :
        stmt = for_program(k, has_initializer, has_condition, has_increment) =>
            LET loop == stmt[2]
                while == IF has_initializer THEN loop.statements[2] ELSE loop
                body == for_body(k, has_condition, has_increment)
                numbers == [j \in 1..k |-> stringify(interpreter, Num(j - 1))]
            IN  /\ loop.type = IF has_initializer THEN "Block" ELSE "While"
                /\ has_initializer =>
                        Len(loop.statements) = 2 /\ loop.statements[1] = Var("i", N(0))
                /\ while.type = "While"
                /\ while.condition =
                        IF has_condition THEN Binary(Variable(1, "i"), "LESS", N(k))
                        ELSE Literal(Bool(TRUE))
                /\ while.body =
                        IF has_increment
                        THEN Block(<<body, Expression(Assign(2, "i",
                                        Binary(Variable(3, "i"), "PLUS", N(1))))>>)
                        ELSE body
                /\ pc = "exit" =>
                        CASE ~has_condition ->
                                interpreter.out = numbers /\ exit_code = RUNTIME_ERROR_CODE
                          [] has_initializer ->
                                interpreter.out = Append(numbers, "g") /\ exit_code = 0
                          [] OTHER ->
                                /\ interpreter.out = Append(numbers, stringify(interpreter, Num(k)))
                                /\ exit_code = 0

\* C22: `var i = "g"; for (var i = 0; i < 2; i = i + 1) print i; print i;`
\* has ended after printing 0, 1 and g.
C22_Witness ==
    /\ pc = "exit"
    /\ stmt = for_program(2, TRUE, TRUE, TRUE)
    /\ interpreter.out = <<"0", "1", "g">>

\* What static_analysis reported with the message m, in order.
RECURSIVE CompileErrors(_, _)
CompileErrors(printed, m) ==
    IF printed = <<>> THEN 0
    ELSE (IF Head(printed).by = "compile_error" /\ Head(printed).message = m THEN 1 ELSE 0)
         + CompileErrors(Tail(printed), m)

Resolved == pc \in {"interpret", "run", "exit"}

\* C24: after static analysis of a program around `var x = <initializer>;`,
\* "Can't read local variable in its own initializer." has been reported once
\* for every Variable node named x in the initializer when the declaration is
\* in a local scope (a block, a function body, a block in either), whether or
\* not an x is declared outside, and the program exits with 65 without output;
\* when the declaration is at global scope nothing at all is reported by the
\* analysis.  The x read after the declaration is never reported.
C24_OwnInitializer ==
    \A place \in Places, outer \in Outers, i \in DOMAIN Initializers :
        (Resolved /\ stmt = own_init_program(place, outer, i)) =>
            LET local == place # "global" \/ outer = "enclosing"
                reported == CompileErrors(stderr,
                                "Can't read local variable in its own initializer.")
            IN  /\ reported = IF local THEN Initializers[i].reads ELSE 0
                /\ reported > 0 =>
                        pc = "exit" /\ exit_code = LEXICAL_ERROR_CODE /\ interpreter.out = <<>>
                /\ ~local => \A j \in DOMAIN stderr : stderr[j].by # "compile_error"

\* C24: `var x = 23; { var x = x; print x; }` was refused with one report.
C24_Witness ==
    /\ pc = "exit" /\ exit_code = LEXICAL_ERROR_CODE
    /\ stmt = own_init_program("block", "global", 1)
    /\ CompileErrors(stderr, "Can't read local variable in its own initializer.") = 1

\* C25: after static analysis of a program with two declarations of x,
\* "Already a variable with this name in this scope." has been reported once
\* when both are in one local scope (var, fun, class and parameter in any
\* pairing, the parameters of a function being in the scope of the top-level
\* declarations of its body), and the program exits with 65; nothing is
\* reported when that scope is the global one or when the second declaration
\* is in a scope nested in the first's.
C25_Redeclared ==
    \A place \in Places, d \in Redeclarations :
        (Resolved /\ stmt = redeclare_program(place, d)) =>
            LET local == place # "global" \/ d.first = "param"
                reported == CompileErrors(stderr,
                                "Already a variable with this name in this scope.")
            IN  IF d.relation = "same" /\ local
                THEN reported = 1 /\ pc = "exit" /\ exit_code = LEXICAL_ERROR_CODE
                ELSE \A j \in DOMAIN stderr : stderr[j].by # "compile_error"

\* C25: `fun f(x) { class x {} }` was refused with one report.
C25_Witness ==
    /\ pc = "exit" /\ exit_code = LEXICAL_ERROR_CODE
    /\ stmt = redeclare_program("global",
                    [first |-> "param", second |-> "class", relation |-> "same"])
    /\ CompileErrors(stderr, "Already a variable with this name in this scope.") = 1

\* C26: after static analysis of a program with return statements at two
\* places, "Can't return from top-level code." has been reported once for each
\* of them that is outside of every function and method body (at top level,
\* in a block, an if, an else, a while) and for none within one; a `this`
\* after them is still reported; and a program with a report has exited with
\* 65 before printing anything.
C26_TopLevelReturn ==
    \A first \in ReturnPlaces, second \in ReturnPlaces, value \in ReturnValues,
       more \in BOOLEAN :
        (Resolved /\ stmt = return_program(first, second, value, more)) =>
            LET top(place) == IF place \in InFunction \cup {"none"} THEN 0 ELSE 1
                reported == CompileErrors(stderr, "Can't return from top-level code.")
            IN  /\ reported = top(first) + top(second)
                /\ CompileErrors(stderr, "Can't use 'this' outside of a class.")
                        = IF more THEN 1 ELSE 0
                /\ reported > 0 =>
                        pc = "exit" /\ exit_code = LEXICAL_ERROR_CODE /\ interpreter.out = <<>>

\* C26: `print 1; { return; } if (false) return; print this;` was refused
\* with two reports of the returns.
C26_Witness ==
    /\ pc = "exit" /\ exit_code = LEXICAL_ERROR_CODE
    /\ stmt = return_program("block", "if", None, TRUE)
    /\ interpreter.out = <<>>
    /\ CompileErrors(stderr, "Can't return from top-level code.") = 2

\* C28: every Variable or Assign node evaluated with an entry in the
\* binding-distance table found its name in the very environment that
\* resolved_env reached by that many parent hops, not in a further ancestor;
\* a node without an entry was looked up in the global environment.
C28_DistanceFindsName ==
    (Resolved /\ interpreter # None) =>
        \A x \in interpreter.binds :
            /\ x.at = x.resolved
            /\ x.node \notin DOMAIN interpreter.locals => x.resolved = 1

\* C29: after static analysis of a class with two methods, whose names may be
\* equal, no redeclaration has been reported, and the Variable m in the body
\* of the first method, m being possibly the name of a method, has no entry in
\* the binding-distance table when the class is at global scope and, when the
\* class is in a block that declares m, the distance 2 of that block (the
\* scope of the method body, the scope of `this`, the block).
C29_ClassScopeOnlyThis ==
    \A place \in {"global", "block"}, first \in MethodNames, second \in MethodNames :
        (Resolved /\ stmt = class_scope_program(place, first, second)) =>
            /\ CompileErrors(stderr, "Already a variable with this name in this scope.") = 0
            /\ place = "global" => 1 \notin DOMAIN interpreter.locals
            /\ place = "block" =>
                    1 \in DOMAIN interpreter.locals /\ interpreter.locals[1] = 2

MaxTokens == 3

\* The characters of a lexeme
Chars(lex) ==
    CASE lex = "print" -> <<"p", "r", "i", "n", "t">>
      [] lex = "class" -> <<"c", "l", "a", "s", "s">>
      [] lex = "var" -> <<"v", "a", "r">>
      [] OTHER -> <<lex>>

ParseLexemes == {"x", "1", "=", ";", "+", ".", "{", "}", "print", "class"}

ParseLists ==
    {<<"var", "x", "=", "+", "+", ";", "print", "1", ";">>,
     <<"var", "x", "=", "+", "+", "+", "print", "1", ";">>,
     <<"x", "=", "y", "=", "z">>,
     <<"x", ".", "y", "=", "1", ";">>,
     <<"(", "x", ")", "=", "1", ";", "print", "x", ";">>,
     <<"1", "+", "x", "=", "y", "=", "2", ";">>,
     <<"{", "1", "=", "x", ";", "+", ";", "}", "print", "1", ";">>,
     <<"+", "class", "x", "{", "}", "print", "1", ";">>,
     <<"print", "1", ";", "{", "class", "}">>}

RECURSIVE Lines(_)
Lines(lexemes) ==
    IF lexemes = <<>> THEN <<>>
    ELSE Chars(Head(lexemes)) \o <<"\n">> \o Lines(Tail(lexemes))

ParseSources ==
    {Lines(l) : l \in ParseLists \cup UNION {[1..n -> ParseLexemes] : n \in 0..MaxTokens}}

InitParse ==
    /\ \E source \in ParseSources :
            parser = OldParser(scan_tokens(Scanner(source, FALSE), <<>>).tokens)
    /\ parse_result = <<>>
    /\ parse_pc \in {"parse_stmt", "parse_expr"}
    /\ parse_log = <<>>
    /\ scanner = Idle /\ tokens = Idle /\ scan_pc = Idle /\ envs = Idle /\ env_op = Idle
    /\ MainIdle

\* What one pass of the loop of parse_stmt appends to parse_log: where the
\* declaration started, where the parser was when its ParseError was caught
\* (-1 without one), where it ended and what it returned.
Logged(p, d) == [start |-> p.current, at |-> d.at, to |-> d.p.current, v |-> d.v]

\* parse_stmt: declaration() returned a statement, which is appended.
ParseAppend ==
    /\ parse_pc = "parse_stmt" /\ ~at_end(parser)
    /\ LET d == declaration(parser)
       IN  /\ d.st = "ok" /\ d.v # None
           /\ parser' = d.p
           /\ parse_result' = Append(parse_result, d.v)
           /\ parse_log' = Append(parse_log, Logged(parser, d))
    /\ UNCHANGED <<parse_pc, scanner, tokens, scan_pc, envs, env_op, main_vars>>

\* parse_stmt: declaration() caught a ParseError and returned None after
\* synchronize, further on than it started.
ParseSkip ==
    /\ parse_pc = "parse_stmt" /\ ~at_end(parser)
    /\ LET d == declaration(parser)
       IN  /\ d.st = "ok" /\ d.v = None /\ d.p.current > parser.current
           /\ parser' = d.p
           /\ parse_log' = Append(parse_log, Logged(parser, d))
    /\ UNCHANGED <<parse_result, parse_pc, scanner, tokens, scan_pc, envs, env_op, main_vars>>

\* parse_stmt: declaration() returned None where it started, or the loop of a
\* block inside it got such a None: every later pass does the same and the
\* loop never ends.
ParseLoop ==
    /\ parse_pc = "parse_stmt" /\ ~at_end(parser)
    /\ LET d == declaration(parser)
       IN  /\ d.st = "loops" \/ (d.v = None /\ d.p.current = parser.current)
           /\ parser' = d.p
           /\ parse_log' = Append(parse_log, Logged(parser, d))
    /\ parse_pc' = "looping"
    /\ UNCHANGED <<parse_result, scanner, tokens, scan_pc, envs, env_op, main_vars>>

\* parse_stmt: at_end(), the list is returned.
ParseReturn ==
    /\ parse_pc = "parse_stmt" /\ at_end(parser)
    /\ parse_pc' = "stmt_returned"
    /\ UNCHANGED <<parser, parse_result, parse_log, scanner, tokens, scan_pc, envs, env_op,
                   main_vars>>

\* OldParser.parse_stmt, the whole loop: [p, v, loops], v being the list
\* `statements` and loops whether the loop cannot end.
RECURSIVE parse_stmt(_, _)
parse_stmt(p, statements) ==
    IF at_end(p) THEN [p |-> p, v |-> statements, loops |-> FALSE]
    ELSE Value({IF d.st = "loops" \/ (d.v = None /\ d.p.current = p.current)
                THEN [p |-> d.p, v |-> statements, loops |-> TRUE]
                ELSE parse_stmt(d.p, IF d.v = None THEN statements
                                     ELSE Append(statements, d.v))
                : d \in {declaration(p)}})

\* OldParser.parse_expr: [p, v], v being the expression or None
parse_expr(p) ==
    Value({IF e.st # "ok" THEN [p |-> e.p, v |-> None]
           ELSE IF ~at_end(e.p)
           THEN [p |-> parser_error(e.p, parser_peek(e.p), "Expected end of expression"),
                 v |-> e.v]
           ELSE [p |-> e.p, v |-> e.v]
           : e \in {expression(p)}})

\* parse_expr runs and returns.
ParseExpr ==
    /\ parse_pc = "parse_expr"
    /\ LET r == parse_expr(parser)
       IN  parser' = r.p /\ parse_result' = r.v
    /\ parse_pc' = "expr_returned"
    /\ UNCHANGED <<parse_log, scanner, tokens, scan_pc, envs, env_op, main_vars>>

NextParse == ParseAppend \/ ParseSkip \/ ParseLoop \/ ParseReturn \/ ParseExpr

SpecParse == InitParse /\ [][NextParse]_vars

(***************************************************************************)
(* Properties of SpecParse.                                                *)
(***************************************************************************)
Last(s) == s[Len(s)]
Range(s) == {s[i] : i \in DOMAIN s}

\* The reports synchronize stops at: ';' is consumed, the others are left.
SyncKeywords == {"CLASS", "FUN", "VAR", "FOR", "IF", "WHILE", "PRINT", "RETURN"}

\* The rule of C19 for the tokens discarded after a ParseError caught at the
\* 0-based position `at`: the parser is left at `to`, after the first ';' or
\* before the first keyword of SyncKeywords or EOF, whichever comes first.
Synced(toks, at, to) ==
    \E j \in (at + 1)..Len(toks) :
        /\ \A k \in (at + 1)..(j - 1) :
                toks[k].type \notin SyncKeywords \cup {"SEMICOLON", "EOF"}
        /\ \/ toks[j].type = "SEMICOLON" /\ to = j
           \/ toks[j].type \in SyncKeywords \cup {"EOF"} /\ to = j - 1

\* The reports made without raising a ParseError.
NotRaised == {"Invalid assignment target.", "Can't have more than 255 arguments.",
              "Expected end of expression"}
Raising(errors) == SelectSeq(errors, LAMBDA e : e.message \notin NotRaised)

\* The statements of the declarations of a log, in its order
RECURSIVE Kept(_)
Kept(log) ==
    IF log = <<>> THEN <<>>
    ELSE (IF Head(log).v = None THEN <<>> ELSE <<Head(log).v>>) \o Kept(Tail(log))

\* C19: parse_stmt does not stop at the first parse error.  A declaration that
\* raised a ParseError appends no statement and its error is reported once, at
\* the token the parser was at; the parser is then left after the first ';'
\* or before the first of class, fun, var, for, if, while, print, return or
\* EOF; the loop goes on from there, every declaration starting where the one
\* before ended, until parse_stmt returns at EOF the statements of the
\* declarations that did not fail, in source order.
C19_ParseStmtRecovers ==
    /\ [](parse_pc # "looping")
    /\ [](parse_pc = "stmt_returned" =>
            /\ at_end(parser)
            /\ parse_result = Kept(parse_log))
    /\ [][parse_pc = "parse_stmt" /\ parse_log' # parse_log =>
            LET e == Last(parse_log')
                reports == SubSeq(parser'.errors, Len(parser.errors) + 1, Len(parser'.errors))
            IN  /\ e.start = parser.current /\ e.to = parser'.current
                /\ e.start < e.to
                /\ Len(Raising(reports)) = parser'.raised - parser.raised
                /\ parser'.caught = parser'.raised
                /\ e.at # -1 =>
                        /\ parse_result' = parse_result
                        /\ parse_pc' = "parse_stmt"
                        /\ reports # <<>>
                        /\ Last(reports).line = parser.tokens[e.at + 1].line
                        /\ Last(reports).message \notin NotRaised
                        /\ Synced(parser.tokens, e.at, e.to)
                /\ e.at = -1 => parse_result' = Append(parse_result, e.v)
       ]_vars

\* C27: every pass of the loop of parse_stmt in which declaration() caught a
\* ParseError leaves the parser strictly further on than the declaration
\* started, the passes of the loop of block() within it included, so that the
\* loops are never in a pass that repeats itself.
C27_FailedDeclarationProgress ==
    /\ [][parse_pc = "parse_stmt" /\ parse_log' # parse_log =>
            LET e == Last(parse_log')
            IN  e.at # -1 => e.start < e.to]_vars
    /\ [](parse_pc # "looping")

\* The tokens at p spell `name . name =`: the left-hand side of the '=' is a
\* property access, a Get.
GetTarget(p) ==
    /\ p.current + 4 <= Len(p.tokens)
    /\ <<p.tokens[p.current + 1].type, p.tokens[p.current + 2].type,
         p.tokens[p.current + 3].type, p.tokens[p.current + 4].type>>
            = <<"IDENTIFIER", "DOT", "IDENTIFIER", "EQUAL">>

InvalidAssignmentTarget(eq) ==
    [line |-> eq.line, where |-> <<" at '">> \o eq.lexeme \o <<"'">>,
     message |-> "Invalid assignment target."]

\* C20: when parse_expr parses `lhs = rhs` with a well-formed rhs: a Variable
\* lhs gives Assign(name, rhs) and no report of its own; a Get lhs (name.name)
\* gives Set(object, name, rhs) and no report; any other lhs reports "Invalid
\* assignment target." at the '=' once, after the reports of the rhs, raises
\* no ParseError, leaves the parser after the rhs and gives the lhs itself.
C20_AssignmentTarget ==
    [][parse_pc = "parse_expr" =>
        /\ GetTarget(parser) =>
                LET value == assignment([parser EXCEPT !.current = @ + 4])
                IN  value.st = "ok" =>
                        /\ parse_result' =
                                Set(Variable(parser.current + 1, parser_peek(parser).lexeme),
                                    parser.tokens[parser.current + 3].lexeme, value.v)
                        /\ \A i \in DOMAIN parser'.errors :
                                parser'.errors[i].message # "Invalid assignment target."
                                    \/ i <= Len(value.p.errors)
        /\ ~GetTarget(parser) =>
                LET lhs == take_binary(parser, 1)
                    eq == parser_peek(lhs.p)
                    value == assignment(parser_pop(lhs.p))
                    reports == SubSeq(parser'.errors, Len(value.p.errors) + 1,
                                      Len(parser'.errors))
                IN  lhs.st = "ok" /\ eq.type = "EQUAL" /\ value.st = "ok" =>
                        /\ parser'.current = value.p.current
                        /\ parser'.raised = value.p.raised
                        /\ SubSeq(parser'.errors, 1, Len(value.p.errors)) = value.p.errors
                        /\ IF lhs.v.type = "Variable"
                           THEN /\ parse_result' = Assign(lhs.p.current + 1, lhs.v.name, value.v)
                                /\ InvalidAssignmentTarget(eq) \notin Range(reports)
                           ELSE /\ parse_result' = lhs.v
                                /\ reports # <<>> /\ Head(reports) = InvalidAssignmentTarget(eq)
                                /\ InvalidAssignmentTarget(eq) \notin Range(Tail(reports))
                                /\ InvalidAssignmentTarget(eq) \notin Range(value.p.errors)
    ]_vars

(***************************************************************************)
(* SpecCall: OldParser.finish_call(callee) on the tokens of `f(1, 2, ...,  *)
(* n)` for the argument counts of ArgumentCounts, and of calls that are    *)
(* cut short, one pass of its loop per step.  The tokens are those         *)
(* scan_tokens returns for the one-line source; the parser starts where    *)
(* call() hands over, behind the '('.  parse_result is the list `args`     *)
(* and, after the return, the Call node.                                   *)
(***************************************************************************)
MaxArguments == 257

ArgumentCounts == {0, 1, 2, 254, 255, 256, MaxArguments}

\* make_token on line 1
Token1(type, lex, literal) == [type |-> type, lexeme |-> lex, line |-> 1, literal |-> literal]

\* The tokens of `f(1, 2, ..., n)` followed by the tokens `rest`
CallTokens(n, rest) ==
    <<Token1("IDENTIFIER", <<"f">>, None), Token1("LEFT_PAREN", <<"(">>, None)>>
    \o [i \in 1..(IF n = 0 THEN 0 ELSE 2 * n - 1) |->
            IF i % 2 = 1
            THEN Token1("NUMBER", DecimalDigits((i + 1) \div 2), float(DecimalDigits((i + 1) \div 2)))
            ELSE Token1("COMMA", <<",">>, None)]
    \o rest

CloseParen == Token1("RIGHT_PAREN", <<")">>, None)
EndOfFile == Token1("EOF", <<>>, None)

\* `f(1, ..., n)`, and the calls `f(1, ..., n` and `f(1, ..., n,` that end early
CallTokenLists ==
    {CallTokens(n, <<CloseParen, EndOfFile>>) : n \in ArgumentCounts}
    \cup {CallTokens(n, <<EndOfFile>>) : n \in {1, 2}}
    \cup {CallTokens(n, <<Token1("COMMA", <<",">>, None), EndOfFile>>) : n \in {1, 2}}

\* The callee call() hands to finish_call
Callee == Variable(1, <<"f">>)

InitCall ==
    /\ \E toks \in CallTokenLists : parser = [OldParser(toks) EXCEPT !.current = 2]
    /\ parse_result = <<>>
    /\ parse_pc = "finish_call"
    /\ parse_log = <<>>
    /\ scanner = Idle /\ tokens = Idle /\ scan_pc = Idle /\ envs = Idle /\ env_op = Idle
    /\ MainIdle

\* finish_call: ')' follows at once, Call(callee, p, []) is returned.
CallNoArguments ==
    /\ parse_pc = "finish_call" /\ parser_peek(parser).type = "RIGHT_PAREN"
    /\ LET r == finish_call(parser, Callee)
       IN  parser' = r.p /\ parse_result' = r.v
    /\ parse_pc' = "call_returned"
    /\ UNCHANGED <<parse_log, scanner, tokens, scan_pc, envs, env_op, main_vars>>

\* finish_call: `args = [self.expression()]`
CallFirstArgument ==
    /\ parse_pc = "finish_call" /\ parser_peek(parser).type # "RIGHT_PAREN"
    /\ LET r == finish_call_first(parser)
       IN  /\ r.st = "ok"
           /\ parser' = r.p /\ parse_result' = r.v
    /\ parse_pc' = "arguments"
    /\ UNCHANGED <<parse_log, scanner, tokens, scan_pc, envs, env_op, main_vars>>

\* finish_call: a pass of the loop appends an argument.
CallArgument ==
    /\ parse_pc = "arguments" /\ parser_peek(parser).type = "COMMA"
    /\ LET r == finish_call_pass(Parsed(parser, parse_result))
       IN  /\ r.st = "ok"
           /\ parser' = r.p /\ parse_result' = r.v
    /\ UNCHANGED <<parse_pc, parse_log, scanner, tokens, scan_pc, envs, env_op, main_vars>>

\* finish_call: the loop is left, ')' is taken and the Call is returned.
CallReturn ==
    /\ parse_pc = "arguments" /\ parser_peek(parser).type # "COMMA"
    /\ LET r == finish_call_close(Parsed(parser, parse_result), Callee)
       IN  /\ r.st = "ok"
           /\ parser' = r.p /\ parse_result' = r.v
    /\ parse_pc' = "call_returned"
    /\ UNCHANGED <<parse_log, scanner, tokens, scan_pc, envs, env_op, main_vars>>

\* finish_call: an argument or the missing ')' raised a ParseError, which
\* leaves finish_call.
CallRaise ==
    /\ \/ parse_pc = "finish_call" /\ parser_peek(parser).type # "RIGHT_PAREN"
       \/ parse_pc = "arguments"
    /\ LET r == CASE parse_pc = "finish_call" -> finish_call_first(parser)
                   [] parser_peek(parser).type = "COMMA" ->
                        finish_call_pass(Parsed(parser, parse_result))
                   [] OTHER -> finish_call_close(Parsed(parser, parse_result), Callee)
       IN  /\ r.st = "ParseError"
           /\ parser' = r.p
    /\ parse_pc' = "call_raised"
    /\ UNCHANGED <<parse_result, parse_log, scanner, tokens, scan_pc, envs, env_op, main_vars>>

NextCall == CallNoArguments \/ CallFirstArgument \/ CallArgument \/ CallReturn \/ CallRaise

SpecCall == InitCall /\ [][NextCall]_vars

\* The arguments a token list spells: its NUMBER tokens.
ArgumentsOf(toks) == SelectSeq(toks, LAMBDA t : t.type = "NUMBER")

TooManyArguments(errors) ==
    SelectSeq(errors, LAMBDA e : e.message = "Can't have more than 255 arguments.")

\* C21: finish_call on a call with n well-formed arguments raises no
\* ParseError and returns a Call node with the callee and all n arguments in
\* source order, also when n > 255; with n > 255 it reports "Can't have more
\* than 255 arguments.", with n = 256 exactly once, and nothing else is
\* reported.
C21_TooManyArguments ==
    /\ parse_pc = "call_raised" => parser.tokens[Len(parser.tokens) - 1].type # "RIGHT_PAREN"
    /\ parse_pc = "call_returned" =>
            LET arguments == ArgumentsOf(parser.tokens)
                n == Len(arguments)
            IN  /\ parser.raised = 0
                /\ at_end(parser)
                /\ parse_result.type = "Call"
                /\ parse_result.callee = Callee
                /\ Len(parse_result.args) = n
                /\ \A i \in 1..n : parse_result.args[i] = Literal(arguments[i].literal)
                /\ TooManyArguments(parser.errors) = parser.errors
                /\ n > 255 => parser.errors # <<>>
                /\ n = 256 => Len(parser.errors) = 1

\* A call with 256 arguments was parsed.
C21_Witness ==
    /\ parse_pc = "call_returned"
    /\ Len(parse_result.args) = 256
    /\ Len(TooManyArguments(parser.errors)) = 1

\* A node without the identities of its Variable and Assign nodes: what the
\* comparison of two trees looks at.
RECURSIVE Anonymous(_)
Anonymous(x) ==
    LET All(nodes) == [i \in DOMAIN nodes |-> Anonymous(nodes[i])]
    IN  CASE x.type = "Variable" -> [x EXCEPT !.id = 0]
          [] x.type = "Assign" -> [x EXCEPT !.id = 0, !.value = Anonymous(@)]
          [] x.type \in {"Binary", "Logical"} ->
                [x EXCEPT !.left = Anonymous(@), !.right = Anonymous(@)]
          [] x.type = "Call" -> [x EXCEPT !.callee = Anonymous(@), !.args = All(@)]
          [] x.type = "Grouping" -> [x EXCEPT !.value = Anonymous(@)]
          [] x.type = "Unary" -> [x EXCEPT !.right = Anonymous(@)]
          [] x.type = "Block" -> [x EXCEPT !.statements = All(@)]
          [] x.type \in {"Expression", "Print"} -> [x EXCEPT !.expr = Anonymous(@)]
          [] x.type = "Function" -> [x EXCEPT !.body = All(@)]
          [] x.type = "If" ->
                [x EXCEPT !.condition = Anonymous(@), !.then_branch = Anonymous(@),
                          !.else_branch = Anonymous(@)]
          [] x.type = "Return" -> [x EXCEPT !.value = Anonymous(@)]
          [] x.type = "Var" -> [x EXCEPT !.initializer = Anonymous(@)]
          [] x.type = "While" -> [x EXCEPT !.condition = Anonymous(@), !.body = Anonymous(@)]
          [] OTHER -> x

\* The tokens of a printed text
Rescanned(text) == scan_tokens(Scanner(text, FALSE), <<>>).tokens

\* C23: when parse_expr or parse_stmt has parsed a source without any report,
\* the text AstPrinter.view gives for the result parses, again without any
\* report, to a tree equal to the result.
C23_RoundTrip ==
    /\ (parse_pc = "expr_returned" /\ parser.errors = <<>>) =>
            (parse_result # None =>
                LET again == parse_expr(OldParser(Rescanned(view(parse_result))))
                IN  /\ again.p.errors = <<>>
                    /\ again.v # None
                    /\ Anonymous(again.v) = Anonymous(parse_result))
    /\ (parse_pc = "stmt_returned" /\ parser.errors = <<>>) =>
            LET again == parse_stmt(OldParser(Rescanned(view_list(<<" ">>, parse_result))), <<>>)
            IN  /\ ~again.loops
                /\ again.p.errors = <<>>
                /\ Len(again.v) = Len(parse_result)
                /\ \A i \in DOMAIN parse_result :
                        Anonymous(again.v[i]) = Anonymous(parse_result[i])


====
